---- MODULE Spec2Model ----
(***************************************************************************)
(* Model of bob_the_engineer: the adapter factory, the two rules managers  *)
(* (claude-code, cursor), the template engine's render-then-validate step  *)
(* and the CLI subcommands that drive them.  The file system under the     *)
(* target repository is the program's state: which directories exist and   *)
(* what every file holds.  Every operation is one atomic action (the       *)
(* program is single-threaded and synchronous); `last` records the call    *)
(* just made with its arguments and its return value or the exception it   *)
(* raised.                                                                  *)
(***************************************************************************)
EXTENDS Integers, Sequences, FiniteSets, TLC

VARIABLES
    adapters,       \* AdapterFactory._adapters: identifier -> adapter class
    adapter,        \* the adapter object the caller holds (None before creation)
    targetExists,   \* the target repository directory exists
    dirs,           \* directories that exist under the target
    files,          \* path -> content, for every file that exists
    templates,      \* template resources shipped in the package's templates/ directory
    last,           \* the last call: operation, arguments, outcome
    runs            \* how many subcommands of the CLI have been run

vars == <<adapters, adapter, targetExists, dirs, files, templates, last, runs>>

None == [none |-> TRUE]

\* ---------------------------------------------------------------- bounds

\* Longest list of names handed to install_workflows.
MaxNames == 2

\* The longest sequence of CLI subcommands run on one repository.
MaxRuns == 2

\* ------------------------------------------------------------ file system

Repo == "/repo"

Path(rel) == Repo \o "/" \o rel

ClaudeDir == Path(".claude")
ClaudeCommandsDir == Path(".claude/commands")
ClaudeAgentsDir == Path(".claude/agents")
CursorDir == Path(".cursor")
CursorRulesDir == Path(".cursor/rules")
CursorCommandsDir == Path(".cursor/commands")

\* Parent directories of a directory, itself included (mkdir(parents=True)).
Chain(d) ==
    CASE d = ClaudeDir -> {ClaudeDir}
      [] d = ClaudeCommandsDir -> {ClaudeDir, ClaudeCommandsDir}
      [] d = ClaudeAgentsDir -> {ClaudeDir, ClaudeAgentsDir}
      [] d = CursorDir -> {CursorDir}
      [] d = CursorRulesDir -> {CursorDir, CursorRulesDir}
      [] d = CursorCommandsDir -> {CursorDir, CursorCommandsDir}

\* A file system state: the three variables as one value.
FsState == [exists |-> targetExists, dirs |-> dirs, files |-> files]

\* Path.mkdir(parents=True, exist_ok=True): creates the target too.
Mkdir(fs, d) == [fs EXCEPT !.exists = TRUE, !.dirs = @ \cup Chain(d)]

\* The directory `d` (Repo for the target itself) exists.
DirExists(fs, d) == IF d = Repo THEN fs.exists ELSE fs.exists /\ d \in fs.dirs

FileExists(fs, p) == fs.exists /\ p \in DOMAIN fs.files

\* Path.write_text / open(p, "w") + write: replaces the whole content.
\* The caller checks that the parent directory exists.
WriteText(fs, p, content) ==
    [fs EXCEPT !.files = [q \in (DOMAIN @) \cup {p} |-> IF q = p THEN content ELSE @[q]]]

SetFs(fs) ==
    /\ targetExists' = fs.exists
    /\ dirs' = fs.dirs
    /\ files' = fs.files

FsUnchanged == UNCHANGED <<targetExists, dirs, files>>

\* ---------------------------------------------------------------- factory

ClaudeRulesManager == "ClaudeRulesManager"
CursorRulesManager == "CursorRulesManager"

\* Identifiers callers pass: the two registered ones and unregistered ones.
AgentTypes == {"claude-code", "cursor", "unknown-agent"}

\* Optional adapter configurations.
Configs == {None, [test_key |-> "test_value"]}

\* A registry whose second entry repeats the first entry's class.
InitialAdaptersSameClass ==
    [t \in {"claude-code", "cursor"} |-> ClaudeRulesManager]

\* AdapterFactory._adapters as the class body sets it.
InitialAdapters ==
    [t \in {"claude-code", "cursor"} |->
        IF t = "claude-code" THEN ClaudeRulesManager ELSE CursorRulesManager]

\* The agent_name property of each class.
agent_name(cls) == IF cls = ClaudeRulesManager THEN "claude-code" ELSE "cursor"

\* The output_format property of each class.
output_format(cls) == IF cls = ClaudeRulesManager THEN "single_file" ELSE "multiple_files"

\* BaseAdapter.__init__: config or {}.
NewAdapter(cls, target, config) ==
    [cls |-> cls, target_path |-> target,
     config |-> IF config = None THEN <<>> ELSE config]

\* list(self._adapters.keys())
SupportedAgents(reg) == DOMAIN reg

\* create_adapter with a message that names a fixed list, not the registry's keys.
CreateAdapterOutcomeFixedList(reg, agent_type, target, config) ==
    IF agent_type \notin DOMAIN reg
    THEN [raised |-> "ValueError", msg |-> "Unsupported agent type",
          agent_type |-> agent_type, supported |-> {"claude-code"}]
    ELSE [raised |-> "", value |-> NewAdapter(reg[agent_type], target, config)]

\* The outcome of AdapterFactory.create_adapter.
CreateAdapterOutcome(reg, agent_type, target, config) ==
    IF agent_type \notin DOMAIN reg
    THEN [raised |-> "ValueError", msg |-> "Unsupported agent type",
          agent_type |-> agent_type, supported |-> SupportedAgents(reg)]
    ELSE [raised |-> "", value |-> NewAdapter(reg[agent_type], target, config)]

create_adapter(agent_type, config) ==
    LET out == CreateAdapterOutcome(adapters, agent_type, Repo, config) IN
    /\ last' = [op |-> "create_adapter", arg |-> agent_type, out |-> out]
    /\ adapter' = IF out.raised = "" THEN out.value ELSE adapter
    /\ UNCHANGED <<adapters, templates, runs>>
    /\ FsUnchanged

get_supported_agents ==
    /\ last' = [op |-> "get_supported_agents", arg |-> None,
                out |-> [raised |-> "", value |-> SupportedAgents(adapters)]]
    /\ UNCHANGED <<adapters, adapter, templates, runs>>
    /\ FsUnchanged

\* The registry when the returned list were the registry's own keys: an
\* entry goes with its name, a new name gets an entry.
RegistryAfterListMutationAliased(reg, returned) ==
    [t \in returned |-> IF t \in DOMAIN reg THEN reg[t] ELSE ClaudeRulesManager]

\* get_supported_agents returns list(...), a copy: changing the returned
\* list leaves the registry as it is.
RegistryAfterListMutation(reg, returned) == reg

\* The caller adds a name to, or removes it from, the list it got from
\* get_supported_agents.
mutate_supported_list(x) ==
    /\ last.op \in {"get_supported_agents", "mutate_supported_list"}
    /\ LET returned == IF x \in last.out.value
                       THEN last.out.value \ {x}
                       ELSE last.out.value \cup {x}
       IN /\ last' = [op |-> "mutate_supported_list", arg |-> x,
                      out |-> [raised |-> "", value |-> returned]]
          /\ adapters' = RegistryAfterListMutation(adapters, returned)
    /\ UNCHANGED <<adapter, templates, runs>>
    /\ FsUnchanged

\* ------------------------------------------------------------ write_rules

\* File contents are sequences of lines.
RulesContents == {<<"# rules A">>, <<"# rules B">>, <<"# rules A", "# rules B">>}

\* templates/cursor-only/bash_deny_list.mdc, a resource of the package.
DenyListTemplate == "templates/cursor-only/bash_deny_list.mdc"
DenyListContent == <<"# bash deny list">>

Ok == [raised |-> ""]
OkValue(v) == [raised |-> "", value |-> v]
Raised(e) == [raised |-> e]

\* An operation's result: the file system it leaves and its outcome.
Result(fs, out) == [fs |-> fs, out |-> out]

\* CursorRulesManager._setup_deny_list_rule
SetupDenyListRule(fs, tpl, rules_dir) ==
    IF DenyListTemplate \in tpl
    THEN WriteText(fs, rules_dir \o "/bash_deny_list.mdc", DenyListContent)
    ELSE fs

\* write_rules that opens CLAUDE.md for appending.
ClaudeWriteRulesAppend(fs, rendered_content) ==
    IF ~DirExists(fs, Repo)
    THEN Result(fs, Raised("FileNotFoundError"))
    ELSE Result(WriteText(fs, Path("CLAUDE.md"),
                          (IF FileExists(fs, Path("CLAUDE.md"))
                           THEN fs.files[Path("CLAUDE.md")] ELSE <<>>) \o rendered_content),
                Ok)

\* ClaudeRulesManager.write_rules: no mkdir, so a missing target raises.
ClaudeWriteRules(fs, rendered_content) ==
    IF ~DirExists(fs, Repo)
    THEN Result(fs, Raised("FileNotFoundError"))
    ELSE Result(WriteText(fs, Path("CLAUDE.md"), rendered_content), Ok)

\* CursorRulesManager.write_rules
CursorWriteRules(fs, tpl, rendered_content) ==
    LET made == Mkdir(fs, CursorRulesDir)
        main == WriteText(made, CursorRulesDir \o "/coding-agent-rules.mdc", rendered_content)
    IN Result(SetupDenyListRule(main, tpl, CursorRulesDir), Ok)

WriteRules(a, fs, tpl, rendered_content) ==
    IF a.cls = ClaudeRulesManager
    THEN ClaudeWriteRules(fs, rendered_content)
    ELSE CursorWriteRules(fs, tpl, rendered_content)

write_rules(rendered_content) ==
    /\ adapter # None
    /\ LET r == WriteRules(adapter, FsState, templates, rendered_content) IN
        /\ SetFs(r.fs)
        /\ last' = [op |-> "write_rules", arg |-> rendered_content, out |-> r.out]
    /\ UNCHANGED <<adapters, adapter, templates, runs>>

\* ClaudeRulesManager.get_output_paths
ClaudeOutputPaths == <<Path("CLAUDE.md")>>

\* get_output_paths naming the one file write_rules is given the content for.
CursorOutputPathsPrimary == << CursorRulesDir \o "/coding-agent-rules.mdc" >>

\* CursorRulesManager.get_output_paths
CursorOutputPaths ==
    << CursorRulesDir \o "/development-workflow.mdc",
       CursorRulesDir \o "/code-standards.mdc",
       CursorRulesDir \o "/project-structure.mdc",
       CursorRulesDir \o "/devops-practices.mdc" >>

OutputPaths(a) == IF a.cls = ClaudeRulesManager THEN ClaudeOutputPaths ELSE CursorOutputPaths

get_output_paths ==
    /\ adapter # None
    /\ last' = [op |-> "get_output_paths", arg |-> None, out |-> OkValue(OutputPaths(adapter))]
    /\ UNCHANGED <<adapters, adapter, templates, runs>>
    /\ FsUnchanged

\* ------------------------------------------------------ install_workflows

\* Workflow names callers pass: two of the known ones and one that no
\* template or mapping knows.  Every name is a single file-name component
\* (no path separator), so <commands dir>/<name>.md lies in the commands
\* directory itself.
WorkflowNames == {"tdd", "code-review", "my-flow"}

\* Lists of at most n names, repetitions included.
RECURSIVE ListsUpTo(_, _)
ListsUpTo(S, n) ==
    IF n = 0 THEN {<<>>}
    ELSE LET shorter == ListsUpTo(S, n - 1) IN
         shorter \cup {Append(l, x) : l \in shorter, x \in S}

\* workflow_mapping of ClaudeRulesManager.install_workflows, .get(workflow, workflow)
WorkflowMapping(workflow) ==
    CASE workflow = "spec-driven" -> "spec_driven_development"
      [] workflow = "tdd" -> "test_driven_development"
      [] workflow = "code-review" -> "code_review"
      [] workflow = "research" -> "research"
      [] workflow = "triage" -> "triage"
      [] OTHER -> workflow

\* ClaudeRulesManager._generate_workflow_command (template_name is unused there)
ClaudeGenerateWorkflowCommand(workflow_name, template_name) ==
    << "---",
       "name: " \o workflow_name,
       "description: " \o workflow_name \o " workflow for development",
       "---",
       "# " \o workflow_name \o " Workflow" >>

\* CursorRulesManager._generate_workflow_command
CursorGenerateWorkflowCommand(workflow_name) ==
    << "# " \o workflow_name \o " Workflow",
       "This is the " \o workflow_name \o " development workflow for Cursor." >>

GenerateWorkflowCommand(a, workflow) ==
    IF a.cls = ClaudeRulesManager
    THEN ClaudeGenerateWorkflowCommand(workflow, WorkflowMapping(workflow))
    ELSE CursorGenerateWorkflowCommand(workflow)

\* The commands directory each class installs workflows into.
CommandsDir(a) == IF a.cls = ClaudeRulesManager THEN ClaudeCommandsDir ELSE CursorCommandsDir

\* command_file = commands_dir / f"{workflow}.md"
CommandFile(a, workflow) == CommandsDir(a) \o "/" \o workflow \o ".md"

\* The loop of install_workflows over workflows[i..]: write, then append the path.
RECURSIVE InstallWorkflowsFrom(_, _, _, _, _)
InstallWorkflowsFrom(a, fs, workflows, i, output_paths) ==
    IF i > Len(workflows)
    THEN Result(fs, OkValue(output_paths))
    ELSE LET command_file == CommandFile(a, workflows[i])
             written == WriteText(fs, command_file, GenerateWorkflowCommand(a, workflows[i]))
         IN InstallWorkflowsFrom(a, written, workflows, i + 1, Append(output_paths, command_file))

\* install_workflows that rejects a name workflow_mapping does not know.
InstallWorkflowsStrict(a, fs, workflows) ==
    IF \E i \in 1..Len(workflows) : WorkflowMapping(workflows[i]) = workflows[i]
    THEN Result(fs, Raised("ValueError"))
    ELSE InstallWorkflowsFrom(a, Mkdir(fs, CommandsDir(a)), workflows, 1, <<>>)

\* install_workflows of both classes: mkdir(parents=True), then the loop.
InstallWorkflows(a, fs, workflows) ==
    InstallWorkflowsFrom(a, Mkdir(fs, CommandsDir(a)), workflows, 1, <<>>)

install_workflows(workflows) ==
    /\ adapter # None
    /\ LET r == InstallWorkflows(adapter, FsState, workflows) IN
        /\ SetFs(r.fs)
        /\ last' = [op |-> "install_workflows", arg |-> workflows, out |-> r.out]
    /\ UNCHANGED <<adapters, adapter, templates, runs>>

\* ------------------------------------------------------------------ JSON

\* Python values of a JSON document: a number, a string, a list, or a dict,
\* which keeps its members in insertion order.
Num(n) == [t |-> "num", v |-> n]
Str(s) == [t |-> "str", v |-> s]
Arr(elements) == [t |-> "arr", e |-> elements]
Obj(members) == [t |-> "obj", m |-> members]
Member(k, v) == [k |-> k, v |-> v]

\* Top-level keys of settings documents, keys of nested mappings, numbers.
Keys == {"x", "y"}
NestedKeys == {"a", "b"}
Numbers == {"1", "2"}

\* The names of the default AI commands, and a name of the user's own.
DefaultCommandNames ==
    <<"safe-commit", "install-deps", "run-tests", "code-review", "safe-cleanup">>
CommandNames == {DefaultCommandNames[i] : i \in 1..Len(DefaultCommandNames)} \cup {"my-cmd"}

\* Keys of the entries of ai-commands.json, and the strings they hold.
CommandKeys == {"name", "prompt", "description"}
Strings ==
    CommandNames \cup {n \o " prompt" : n \in CommandNames}
                 \cup {n \o " description" : n \in CommandNames} \cup {"mine"}

\* A document's text is its sequence of JSON tokens (white space dropped).
Quote(k) == "\"" \o k \o "\""
KeyTokens == {Quote(k) : k \in Keys \cup NestedKeys \cup CommandKeys}
StringTokens == KeyTokens \cup {Quote(k) : k \in Strings}
Unquoted == [tok \in StringTokens |->
                CHOOSE k \in Keys \cup NestedKeys \cup CommandKeys \cup Strings : Quote(k) = tok]
Unquote(tok) == Unquoted[tok]

\* json.dump(value, f, indent=2)
RECURSIVE JsonDump(_), JsonDumpMembers(_, _), JsonDumpElements(_, _)
JsonDump(value) ==
    IF value.t = "num"
    THEN <<value.v>>
    ELSE IF value.t = "str"
    THEN <<Quote(value.v)>>
    ELSE IF value.t = "arr"
    THEN <<"[">> \o JsonDumpElements(value.e, 1) \o <<"]">>
    ELSE <<"{">> \o JsonDumpMembers(value.m, 1) \o <<"}">>
JsonDumpElements(e, i) ==
    IF i > Len(e) THEN <<>>
    ELSE (IF i > 1 THEN <<",">> ELSE <<>>) \o JsonDump(e[i]) \o JsonDumpElements(e, i + 1)
JsonDumpMembers(m, i) ==
    IF i > Len(m) THEN <<>>
    ELSE (IF i > 1 THEN <<",">> ELSE <<>>)
         \o <<Quote(m[i].k), ":">> \o JsonDump(m[i].v)
         \o JsonDumpMembers(m, i + 1)

\* d[k] = v on a dict: a key it has keeps its position.
DictSet(m, k, v) ==
    IF \E i \in 1..Len(m) : m[i].k = k
    THEN [i \in 1..Len(m) |-> IF m[i].k = k THEN Member(k, v) ELSE m[i]]
    ELSE Append(m, Member(k, v))

\* dict.update(other)
RECURSIVE DictUpdateFrom(_, _, _)
DictUpdateFrom(m, other, i) ==
    IF i > Len(other) THEN m
    ELSE DictUpdateFrom(DictSet(m, other[i].k, other[i].v), other, i + 1)
DictUpdate(m, other) == DictUpdateFrom(m, other, 1)

ParseFail == [ok |-> FALSE]
Parsed(value, rest) == [ok |-> TRUE, val |-> value, rest |-> rest]
Rest(toks, n) == SubSeq(toks, n, Len(toks))

\* The JSON decoder: one value off the front of the tokens.
RECURSIVE ParseValue(_), ParseMember(_, _), ParseElement(_, _)
ParseValue(toks) ==
    IF toks = <<>> THEN ParseFail
    ELSE IF Head(toks) \in Numbers THEN Parsed(Num(Head(toks)), Tail(toks))
    ELSE IF Head(toks) \in StringTokens THEN Parsed(Str(Unquote(Head(toks))), Tail(toks))
    ELSE IF Head(toks) = "[" /\ Len(toks) >= 2 /\ toks[2] = "]"
    THEN Parsed(Arr(<<>>), Rest(toks, 3))
    ELSE IF Head(toks) = "[" THEN ParseElement(Tail(toks), <<>>)
    ELSE IF Head(toks) # "{" THEN ParseFail
    ELSE IF Len(toks) >= 2 /\ toks[2] = "}" THEN Parsed(Obj(<<>>), Rest(toks, 3))
    ELSE ParseMember(Tail(toks), <<>>)
ParseMember(toks, acc) ==
    IF Len(toks) < 2 \/ toks[1] \notin KeyTokens \/ toks[2] # ":" THEN ParseFail
    ELSE LET pv == ParseValue(Rest(toks, 3)) IN
         IF ~pv.ok \/ pv.rest = <<>> THEN ParseFail
         ELSE LET acc2 == DictSet(acc, Unquote(toks[1]), pv.val) IN
              IF Head(pv.rest) = "}" THEN Parsed(Obj(acc2), Tail(pv.rest))
              ELSE IF Head(pv.rest) = "," THEN ParseMember(Tail(pv.rest), acc2)
              ELSE ParseFail

ParseElement(toks, acc) ==
    LET pv == ParseValue(toks) IN
    IF ~pv.ok \/ pv.rest = <<>> THEN ParseFail
    ELSE IF Head(pv.rest) = "]" THEN Parsed(Arr(Append(acc, pv.val)), Tail(pv.rest))
    ELSE IF Head(pv.rest) = "," THEN ParseElement(Tail(pv.rest), Append(acc, pv.val))
    ELSE ParseFail

\* json.load(f): the whole text must be one value; else JSONDecodeError.
JsonLoad(text) ==
    LET pv == ParseValue(text) IN
    IF pv.ok /\ pv.rest = <<>> THEN [ok |-> TRUE, val |-> pv.val] ELSE ParseFail

\* ------------------------------------------------------ configure_settings

\* Values callers give a settings key: a number or a nested mapping.
SettingValues ==
    {Num("1"), Obj(<<Member("a", Num("1"))>>), Obj(<<Member("b", Num("2"))>>)}

\* The settings mappings callers pass: dicts over the top-level keys.
SettingsArgs ==
    {<<>>, <<Member("y", Num("1"))>>}
    \cup {<<Member("x", v)>> : v \in SettingValues}
    \cup {<<Member("x", v), Member("y", Num("1"))>> : v \in SettingValues}

\* The directory that holds each class's settings.json.
SettingsDir(a) == IF a.cls = ClaudeRulesManager THEN ClaudeDir ELSE CursorDir
SettingsFile(a) == SettingsDir(a) \o "/settings.json"

\* configure_settings that writes the given mapping over the document.
ConfigureSettingsOverwrite(a, fs, settings) ==
    LET made == Mkdir(fs, SettingsDir(a)) IN
    Result(WriteText(made, SettingsFile(a), JsonDump(Obj(settings))),
           OkValue(SettingsFile(a)))

\* configure_settings taking a document it cannot parse for an empty one.
ConfigureSettingsResetsUnparsable(a, fs, settings) ==
    LET made == Mkdir(fs, SettingsDir(a))
        settings_file == SettingsFile(a)
        loaded == IF FileExists(made, settings_file)
                  THEN JsonLoad(made.files[settings_file])
                  ELSE [ok |-> TRUE, val |-> Obj(<<>>)]
        existing_settings == IF loaded.ok THEN loaded.val ELSE Obj(<<>>)
    IN IF existing_settings.t # "obj" THEN Result(made, Raised("AttributeError"))
       ELSE Result(WriteText(made, settings_file,
                             JsonDump(Obj(DictUpdate(existing_settings.m, settings)))),
                   OkValue(settings_file))

\* configure_settings of both classes: mkdir, read, update, write.
ConfigureSettings(a, fs, settings) ==
    LET made == Mkdir(fs, SettingsDir(a))
        settings_file == SettingsFile(a)
        loaded == IF FileExists(made, settings_file)
                  THEN JsonLoad(made.files[settings_file])
                  ELSE [ok |-> TRUE, val |-> Obj(<<>>)]
    IN IF ~loaded.ok THEN Result(made, Raised("JSONDecodeError"))
       ELSE IF loaded.val.t # "obj" THEN Result(made, Raised("AttributeError"))
       ELSE Result(WriteText(made, settings_file,
                             JsonDump(Obj(DictUpdate(loaded.val.m, settings)))),
                   OkValue(settings_file))

configure_settings(settings) ==
    /\ adapter # None
    /\ LET r == ConfigureSettings(adapter, FsState, settings) IN
        /\ SetFs(r.fs)
        /\ last' = [op |-> "configure_settings", arg |-> settings, out |-> r.out]
    /\ UNCHANGED <<adapters, adapter, templates, runs>>

\* ------------------------------------------------- apply_settings_template

\* What datetime.now().strftime('%Y%m%d-%H%M%S') yields at successive
\* seconds: one reading per second, in the order of time.
ClockReadings == <<"20250101-120000", "20250101-120001">>

\* settings_file.with_suffix(f".json.backup-{...}")
BackupFile(reading) == ClaudeDir \o "/settings.json.backup-" \o reading

\* Settings templates as load_settings_template returns them: the metadata
\* under a key that starts with "_", then the settings.
SettingsTemplates ==
    { Obj(<<Member("_template_info", Obj(<<Member("name", Str("solo-developer"))>>)),
            Member("x", Num("1"))>>),
      Obj(<<Member("_template_info", Obj(<<Member("name", Str("development-team"))>>)),
            Member("x", Num("2")), Member("y", Num("1"))>>) }

\* {k: v for k, v in template.items() if not k.startswith("_")}
SettingsData(template) == SelectSeq(template.m, LAMBDA mem : mem.k # "_template_info")

\* ClaudeRulesManager.apply_settings_template; `now` is the clock's reading.
ApplySettingsTemplate(a, fs, template, dry_run, now) ==
    IF dry_run THEN Result(fs, Ok)
    ELSE LET settings_file == ClaudeDir \o "/settings.json"
             backup_file == BackupFile(now)
             backed == IF FileExists(fs, settings_file)
                       THEN WriteText(fs, backup_file, fs.files[settings_file])
                       ELSE fs
             r == ConfigureSettings(a, backed, SettingsData(template))
         IN IF r.out.raised # "" THEN r ELSE Result(r.fs, Ok)

\* The clock never runs backwards: a call reads what the call before it
\* read, or a later reading.
apply_settings_template(template, dry_run, i) ==
    /\ adapter # None
    /\ adapter.cls = ClaudeRulesManager
    /\ last.op = "apply_settings_template" => i >= last.arg.second
    /\ LET r == ApplySettingsTemplate(adapter, FsState, template, dry_run, ClockReadings[i]) IN
        /\ SetFs(r.fs)
        /\ last' = [op |-> "apply_settings_template",
                    arg |-> [template |-> template, dry_run |-> dry_run, second |-> i],
                    out |-> r.out]
    /\ UNCHANGED <<adapters, adapter, templates, runs>>


\* -------------------------------------------------------- template engine

\* Subagent names callers pass: one of init's available_subagents and one
\* that has no template.
SubagentNames == {"configure_rules", "no-such-agent"}

\* load_agent_config: templates_dir.parent / "adapters" / "config" / f"{agent_type}.yaml"
AgentConfigFile(agent_type) == "adapters/config/" \o agent_type \o ".yaml"

\* template_path = f"subagents/{subagent_name}.jinja2.md"
SubagentTemplate(subagent_name) == "templates/subagents/" \o subagent_name \o ".jinja2.md"

\* template_path = f"workflows/coding/{workflow_name}.jinja2.md"
WorkflowTemplate(workflow_name) == "templates/workflows/coding/" \o workflow_name \o ".jinja2.md"

\* Every resource a complete installation of the package ships.
AllResources ==
    {DenyListTemplate, "templates/cursor-only/bash_protection.sh",
     AgentConfigFile("claude-code"), AgentConfigFile("cursor")}
    \cup {SubagentTemplate(n) : n \in
            {"build_test_run", "configure_defaults", "configure_mcp", "configure_rules",
             "configure_supervisor", "detect_conflicting_instructions",
             "improve_code_quality_checks", "improve_debuggability"}}
    \cup {WorkflowTemplate(n) : n \in {"code-review", "spec-driven", "tdd"}}

\* What the package directory may hold: everything; nothing; or no
\* configure_rules template, but a configuration file of an agent the
\* factory does not register.
PackageLayouts ==
    { AllResources,
      {},
      (AllResources \ {SubagentTemplate("configure_rules")})
          \cup {AgentConfigFile("unknown-agent")} }

\* Lines of rendered documents: the marker, a well-formed and a malformed
\* line of YAML.
MaxLines == 3
Lines == {"---", "name: rules", "tools: [Read"}

\* Texts of 1..n lines: what str.split("\n") yields is never empty.
RenderedTexts(n) == ListsUpTo(Lines, n) \ {<<>>}

\* yaml.safe_load on the lines of a block: a flow sequence left open is a
\* YAMLError; the other lines load.
YamlSafeLoad(block) ==
    IF \E i \in 1..Len(block) : block[i] = "tools: [Read"
    THEN Raised("YAMLError")
    ELSE Ok

NoIdx == -1

\* The loop "for i, line in enumerate(lines[1:], 1)": the index (from 0)
\* of the first later line that is the marker, None when there is none.
EndIdx(lines) ==
    LET hits == {i \in 1..(Len(lines) - 1) : lines[i + 1] = "---"} IN
    IF hits = {} THEN NoIdx ELSE CHOOSE i \in hits : \A j \in hits : i <= j

\* lines[1:end_idx]
Frontmatter(lines, end_idx) == SubSeq(lines, 2, end_idx)

InvalidFrontmatter == "Invalid YAML frontmatter after template rendering"
UnsupportedAgent == "Unsupported agent type"
SubagentNotFound == "Subagent template not found"

ValueError(msg) == [raised |-> "ValueError", msg |-> msg]

\* Pass 2 with the parse left out.
ValidateFrontmatterSkipped(rendered_content) == OkValue(rendered_content)

\* Pass 2 taking a block that is never closed to run to the end of the text.
ValidateFrontmatterToEnd(rendered_content) ==
    LET lines == rendered_content
        end_idx == IF EndIdx(lines) = NoIdx THEN Len(lines) ELSE EndIdx(lines)
    IN IF /\ lines[1] = "---"
          /\ YamlSafeLoad(Frontmatter(lines, end_idx)).raised = "YAMLError"
       THEN ValueError(InvalidFrontmatter)
       ELSE OkValue(rendered_content)

\* Pass 2 of both render functions: validate the leading block, return the text.
ValidateFrontmatter(rendered_content) ==
    LET lines == rendered_content
        end_idx == EndIdx(lines)
    IN IF /\ lines[1] = "---"
          /\ end_idx # NoIdx /\ end_idx # 0
          /\ YamlSafeLoad(Frontmatter(lines, end_idx)).raised = "YAMLError"
       THEN ValueError(InvalidFrontmatter)
       ELSE OkValue(rendered_content)

\* TemplateEngine.render_configure_rules; `rendered` is what template.render
\* yields when the call gets that far.
RenderConfigureRules(tpl, reg, agent_type, rendered) ==
    IF AgentConfigFile(agent_type) \notin tpl
    THEN ValueError(UnsupportedAgent)
    ELSE LET created == CreateAdapterOutcome(reg, agent_type, Repo, <<>>) IN
         IF created.raised # "" THEN ValueError(UnsupportedAgent)
         ELSE IF SubagentTemplate("configure_rules") \notin tpl
         THEN Raised("TemplateNotFound")
         ELSE ValidateFrontmatter(rendered)

\* TemplateEngine.render_subagent_template
RenderSubagentTemplate(tpl, subagent_name, agent_type, rendered) ==
    IF agent_type \notin {"claude-code", "cursor"}
    THEN ValueError(UnsupportedAgent)
    ELSE IF SubagentTemplate(subagent_name) \notin tpl
    THEN ValueError(SubagentNotFound)
    ELSE ValidateFrontmatter(rendered)

render_configure_rules(agent_type, rendered) ==
    /\ last' = [op |-> "render_configure_rules",
                arg |-> [agent_type |-> agent_type, rendered |-> rendered],
                out |-> RenderConfigureRules(templates, adapters, agent_type, rendered)]
    /\ UNCHANGED <<adapters, adapter, templates, runs>>
    /\ FsUnchanged

render_subagent_template(subagent_name, agent_type, rendered) ==
    /\ last' = [op |-> "render_subagent_template",
                arg |-> [subagent_name |-> subagent_name, agent_type |-> agent_type,
                         rendered |-> rendered],
                out |-> RenderSubagentTemplate(templates, subagent_name, agent_type, rendered)]
    /\ UNCHANGED <<adapters, adapter, templates, runs>>
    /\ FsUnchanged

\* ------------------------------------------------------ install_subagents

\* The text of a template file of the package, as it is on disk (not rendered).
TemplateSource(res) == <<"{# " \o res \o " #}", "{{ agent_type }}">>

\* The directory each class installs subagents into.
AgentsDir(a) == IF a.cls = ClaudeRulesManager THEN ClaudeAgentsDir ELSE CursorCommandsDir

\* ClaudeRulesManager._generate_subagent_template
ClaudeGenerateSubagentTemplate(subagent_name) ==
    << "---",
       "name: " \o subagent_name,
       "tools: [Read, Write, Edit, Bash]",
       "---",
       "*Note: This is a generated template. Customize as needed.*" >>

\* CursorRulesManager._generate_command_template
CursorGenerateCommandTemplate(command_name) ==
    << "## Purpose",
       "This command handles " \o command_name \o " tasks in Cursor.",
       "*Note: This is a generated template. Customize as needed for your specific use case.*" >>

\* What the loop writes for one name: the template's copy, or a placeholder.
SubagentFileContent(a, tpl, subagent) ==
    IF SubagentTemplate(subagent) \in tpl
    THEN TemplateSource(SubagentTemplate(subagent))
    ELSE IF a.cls = ClaudeRulesManager
    THEN ClaudeGenerateSubagentTemplate(subagent)
    ELSE CursorGenerateCommandTemplate(subagent)

\* The loop of install_subagents over subagents[i..].
RECURSIVE InstallSubagentsFrom(_, _, _, _, _, _)
InstallSubagentsFrom(a, fs, tpl, subagents, i, output_paths) ==
    IF i > Len(subagents)
    THEN Result(fs, OkValue(output_paths))
    ELSE LET agent_file == AgentsDir(a) \o "/" \o subagents[i] \o ".md"
             written == WriteText(fs, agent_file, SubagentFileContent(a, tpl, subagents[i]))
         IN InstallSubagentsFrom(a, written, tpl, subagents, i + 1,
                                 Append(output_paths, agent_file))

\* install_subagents that skips the names no template file exists for.
InstallSubagentsTemplatesOnly(a, fs, tpl, subagents) ==
    InstallSubagentsFrom(a, Mkdir(fs, AgentsDir(a)), tpl,
                         SelectSeq(subagents, LAMBDA n : SubagentTemplate(n) \in tpl),
                         1, <<>>)

\* install_subagents of both classes: mkdir(parents=True), then the loop.
InstallSubagents(a, fs, tpl, subagents) ==
    InstallSubagentsFrom(a, Mkdir(fs, AgentsDir(a)), tpl, subagents, 1, <<>>)

install_subagents(subagents) ==
    /\ adapter # None
    /\ LET r == InstallSubagents(adapter, FsState, templates, subagents) IN
        /\ SetFs(r.fs)
        /\ last' = [op |-> "install_subagents", arg |-> subagents, out |-> r.out]
    /\ UNCHANGED <<adapters, adapter, templates, runs>>

\* ---------------------------------------------------------- cursor safety

\* d.get(k) on a dict: None when the key is missing.
DictGet(m, k) ==
    IF \E i \in 1..Len(m) : m[i].k = k
    THEN m[CHOOSE i \in 1..Len(m) : m[i].k = k].v
    ELSE None

\* One entry of the ai_commands list of install_ai_commands (the texts of
\* the prompt and of the description are shortened).
DefaultCommand(name) ==
    Obj(<< Member("name", Str(name)), Member("prompt", Str(name \o " prompt")),
           Member("description", Str(name \o " description")) >>)

\* ai_commands as install_ai_commands builds it.
DefaultCommands == [i \in 1..Len(DefaultCommandNames) |-> DefaultCommand(DefaultCommandNames[i])]

\* commands_file = self.target_path / "ai-commands.json"
AiCommandsFile == Path("ai-commands.json")

\* {cmd.get("name") for cmd in existing if isinstance(cmd, dict)}
ExistingNames(existing) ==
    {DictGet(existing[i].m, "name") : i \in {j \in 1..Len(existing) : existing[j].t = "obj"}}

\* A list or a dict is not hashable: it cannot be a member of a set.
Unhashable(value) == value # None /\ value.t \in {"arr", "obj"}

\* The loop "for cmd in ai_commands": append the commands whose names are new.
MergeCommands(existing, ai_commands) ==
    existing \o SelectSeq(ai_commands,
                          LAMBDA cmd : DictGet(cmd.m, "name") \notin ExistingNames(existing))

\* install_ai_commands appending every default command to the list it finds.
InstallAiCommandsAppendAll(fs) ==
    IF ~FileExists(fs, AiCommandsFile)
    THEN IF ~DirExists(fs, Repo) THEN Result(fs, Raised("FileNotFoundError"))
         ELSE Result(WriteText(fs, AiCommandsFile, JsonDump(Arr(DefaultCommands))),
                     OkValue(AiCommandsFile))
    ELSE LET loaded == JsonLoad(fs.files[AiCommandsFile]) IN
         IF ~loaded.ok THEN Result(fs, Raised("JSONDecodeError"))
         ELSE IF loaded.val.t # "arr"
         THEN Result(WriteText(fs, AiCommandsFile, JsonDump(Arr(DefaultCommands))),
                     OkValue(AiCommandsFile))
         ELSE Result(WriteText(fs, AiCommandsFile,
                               JsonDump(Arr(loaded.val.e \o DefaultCommands))),
                     OkValue(AiCommandsFile))

\* CursorRulesManager.install_ai_commands
InstallAiCommands(fs) ==
    IF ~FileExists(fs, AiCommandsFile)
    THEN IF ~DirExists(fs, Repo) THEN Result(fs, Raised("FileNotFoundError"))
         ELSE Result(WriteText(fs, AiCommandsFile, JsonDump(Arr(DefaultCommands))),
                     OkValue(AiCommandsFile))
    ELSE LET loaded == JsonLoad(fs.files[AiCommandsFile]) IN
         IF ~loaded.ok THEN Result(fs, Raised("JSONDecodeError"))
         ELSE IF loaded.val.t # "arr"
         THEN Result(WriteText(fs, AiCommandsFile, JsonDump(Arr(DefaultCommands))),
                     OkValue(AiCommandsFile))
         ELSE IF \E n \in ExistingNames(loaded.val.e) : Unhashable(n)
         THEN Result(fs, Raised("TypeError"))
         ELSE Result(WriteText(fs, AiCommandsFile,
                               JsonDump(Arr(MergeCommands(loaded.val.e, DefaultCommands)))),
                     OkValue(AiCommandsFile))

install_ai_commands ==
    /\ adapter # None
    /\ adapter.cls = CursorRulesManager
    /\ LET r == InstallAiCommands(FsState) IN
        /\ SetFs(r.fs)
        /\ last' = [op |-> "install_ai_commands", arg |-> None, out |-> r.out]
    /\ UNCHANGED <<adapters, adapter, templates, runs>>


\* templates/cursor-only/bash_protection.sh, a resource of the package, and
\* the path the package directory gives it.
ProtectionScript == "templates/cursor-only/bash_protection.sh"
ProtectionFile == "/site-packages/bob_the_engineer/" \o ProtectionScript

\* Values of the SHELL environment variable.
Shells == {"/bin/zsh", "/bin/bash", "/usr/bin/fish"}

\* "zsh" in shell, then "bash" in shell.
ShellType(shell) ==
    CASE shell = "/bin/zsh" -> "zsh"
      [] shell = "/bin/bash" -> "bash"
      [] OTHER -> "None"

\* home / ".zshrc" and home / ".bashrc"
RcFile(shell_type) == IF shell_type = "zsh" THEN "~/.zshrc" ELSE "~/.bashrc"

\* The lines setup_bash_protection appends: "\n# Cursor ...\nsource <file>\n".
\* A text is the sequence of its lines, each one ended by its newline.
SourceLine == "source " \o ProtectionFile
SourceLines == <<"", "# Cursor AI Safety Protection", SourceLine>>

\* "bash_protection.sh" in line or "Cursor AI Safety Shell Protection" in line
MentionsProtection(line) ==
    line \in {SourceLine, "# source /opt/old/bash_protection.sh",
              "# Cursor AI Safety Shell Protection"}

\* The result dictionary of setup_bash_protection (the instructions, texts
\* for the user, are left out).
ProtectionResult(shell_type, rc_file, protection_installed, ai_rules_installed) ==
    OkValue([shell_type |-> shell_type, rc_file |-> rc_file,
             protection_installed |-> protection_installed,
             ai_rules_installed |-> ai_rules_installed])

\* The file opened with "a": what it held, then the text written.
AppendText(fs, p, lines) ==
    WriteText(fs, p, (IF p \in DOMAIN fs.files THEN fs.files[p] ELSE <<>>) \o lines)

\* setup_bash_protection appending without the check of what the file holds.
SetupBashProtectionNoCheck(fs, tpl, shell, auto_install) ==
    IF ShellType(shell) = "None"
    THEN Result(fs, ProtectionResult("None", "None", FALSE, FALSE))
    ELSE LET shell_type == ShellType(shell)
             rc_file == RcFile(shell_type)
             ruled == SetupDenyListRule(Mkdir(fs, CursorRulesDir), tpl, CursorRulesDir)
         IN IF ProtectionScript \notin tpl
            THEN Result(ruled, ProtectionResult(shell_type, rc_file, FALSE, TRUE))
            ELSE IF auto_install
            THEN Result(AppendText(ruled, rc_file, SourceLines),
                        ProtectionResult(shell_type, rc_file, TRUE, TRUE))
            ELSE Result(ruled, ProtectionResult(shell_type, rc_file, FALSE, TRUE))

\* CursorRulesManager.setup_bash_protection; `shell` is the value of SHELL.
SetupBashProtection(fs, tpl, shell, auto_install) ==
    IF ShellType(shell) = "None"
    THEN Result(fs, ProtectionResult("None", "None", FALSE, FALSE))
    ELSE LET shell_type == ShellType(shell)
             rc_file == RcFile(shell_type)
             ruled == SetupDenyListRule(Mkdir(fs, CursorRulesDir), tpl, CursorRulesDir)
         IN IF ProtectionScript \notin tpl
            THEN Result(ruled, ProtectionResult(shell_type, rc_file, FALSE, TRUE))
            ELSE IF /\ rc_file \in DOMAIN ruled.files
                    /\ \E i \in 1..Len(ruled.files[rc_file]) :
                          MentionsProtection(ruled.files[rc_file][i])
            THEN Result(ruled, ProtectionResult(shell_type, rc_file, TRUE, TRUE))
            ELSE IF auto_install
            THEN Result(AppendText(ruled, rc_file, SourceLines),
                        ProtectionResult(shell_type, rc_file, TRUE, TRUE))
            ELSE Result(ruled, ProtectionResult(shell_type, rc_file, FALSE, TRUE))

setup_bash_protection(shell, auto_install) ==
    /\ adapter # None
    /\ adapter.cls = CursorRulesManager
    /\ LET r == SetupBashProtection(FsState, templates, shell, auto_install) IN
        /\ SetFs(r.fs)
        /\ last' = [op |-> "setup_bash_protection",
                    arg |-> [shell |-> shell, auto_install |-> auto_install],
                    out |-> r.out]
    /\ UNCHANGED <<adapters, adapter, templates, runs>>


\* ------------------------------------------------------ template variables

\* Adapter configurations that name the keys of the per-tool defaults.
VariableConfigs ==
    { None, [test_key |-> "test_value"], [agent_type |-> "from-config"],
      [output_file |-> "RULES.md", test_key |-> "test_value"] }

\* default_vars of each class's get_template_variables
DefaultVars(cls) ==
    IF cls = ClaudeRulesManager
    THEN [agent_type |-> "claude-code", output_file |-> "CLAUDE.md"]
    ELSE [agent_type |-> "cursor", output_file |-> ".cursor/rules/"]

\* d.update(other) and {**d, **other} on mappings: other's values win.
MapUpdate(d, other) ==
    [k \in DOMAIN d \cup DOMAIN other |-> IF k \in DOMAIN other THEN other[k] ELSE d[k]]

\* get_template_variables with the defaults winning over the config.
GetTemplateVariablesDefaultsWin(a) ==
    IF DOMAIN a.config # {}
    THEN MapUpdate(a.config, DefaultVars(a.cls))
    ELSE DefaultVars(a.cls)

\* get_template_variables of both classes: a fresh mapping each call.
GetTemplateVariables(a) ==
    IF DOMAIN a.config # {}
    THEN MapUpdate(DefaultVars(a.cls), a.config)
    ELSE DefaultVars(a.cls)

get_template_variables ==
    /\ adapter # None
    /\ last' = [op |-> "get_template_variables", arg |-> None,
                out |-> OkValue(GetTemplateVariables(adapter))]
    /\ UNCHANGED <<adapters, adapter, templates, runs>>
    /\ FsUnchanged

\* Agent configuration documents load_agent_config may return, and the
\* additional_context mappings callers pass.
AgentConfigDocuments ==
    { [name |-> "Agent"], [agent_type |-> "from-config", features |-> "from-config"],
      [output_file |-> "RULES.md", features |-> "from-config"] }
AdditionalContexts ==
    { None, [agent_type |-> "from-caller"],
      [features |-> "from-caller", project |-> "from-caller"] }

\* The context with the adapter built without the agent configuration, so
\* that the adapter's defaults overwrite the configuration's values.
ConfigureRulesContextDefaultsLast(reg, agent_type, agent_config, additional_context) ==
    IF agent_type \notin DOMAIN reg THEN ValueError(UnsupportedAgent)
    ELSE LET a == NewAdapter(reg[agent_type], Repo, None)
             extra == IF additional_context = None THEN <<>> ELSE additional_context
         IN OkValue(MapUpdate(MapUpdate(agent_config, GetTemplateVariables(a)), extra))

\* template_context of render_configure_rules, for a loaded agent_config.
ConfigureRulesContext(reg, agent_type, agent_config, additional_context) ==
    LET created == CreateAdapterOutcome(reg, agent_type, Repo, agent_config) IN
    IF created.raised # "" THEN created
    ELSE LET extra == IF additional_context = None THEN <<>> ELSE additional_context
         IN OkValue(MapUpdate(MapUpdate(agent_config, GetTemplateVariables(created.value)),
                              extra))

\* The step of render_configure_rules that builds the template context.
render_configure_rules_context(agent_type, agent_config, additional_context) ==
    /\ AgentConfigFile(agent_type) \in templates
    /\ last' = [op |-> "render_configure_rules_context",
                arg |-> [agent_type |-> agent_type, agent_config |-> agent_config,
                         additional_context |-> additional_context],
                out |-> ConfigureRulesContext(adapters, agent_type, agent_config,
                                              additional_context)]
    /\ UNCHANGED <<adapters, adapter, templates, runs>>
    /\ FsUnchanged

\* ------------------------------------------- template engine: generation

\* What each template renders to, for the templates a call renders.
GoodDocument == <<"---", "name: rules", "---">>
BadDocument == <<"---", "tools: [Read", "---">>
PlainRendering == [res \in AllResources |-> GoodDocument]
Renderings ==
    { PlainRendering,
      [res \in AllResources |->
          IF res = SubagentTemplate("configure_rules") THEN BadDocument ELSE GoodDocument] }

\* A template outside the shipped ones renders to a plain document when
\* the package directory holds it.
RenderOf(render, res) == IF res \in DOMAIN render THEN render[res] ELSE GoodDocument

\* The commands directory TemplateEngine picks for an agent type.
EngineCommandsDir(agent_type) ==
    IF agent_type = "claude-code" THEN ClaudeCommandsDir ELSE CursorCommandsDir

\* TemplateEngine.generate_rules; `rendered` is what template.render yields.
GenerateRules(fs, tpl, reg, agent_type, rendered) ==
    LET rendered_content == RenderConfigureRules(tpl, reg, agent_type, rendered) IN
    IF rendered_content.raised # "" THEN Result(fs, rendered_content)
    ELSE LET created == CreateAdapterOutcome(reg, agent_type, Repo, None) IN
         IF created.raised # "" THEN Result(fs, created)
         ELSE LET w == WriteRules(created.value, fs, tpl, rendered_content.value) IN
              IF w.out.raised # "" THEN w
              ELSE Result(w.fs, OkValue(OutputPaths(created.value)))

\* generate_subagent_rules making the commands directory before it renders.
GenerateSubagentRulesMkdirFirst(fs, tpl, render, subagent_name, agent_type) ==
    IF agent_type \notin {"claude-code", "cursor"}
    THEN Result(fs, ValueError(UnsupportedAgent))
    ELSE LET commands_dir == EngineCommandsDir(agent_type)
             made == Mkdir(fs, commands_dir)
             rendered == RenderSubagentTemplate(tpl, subagent_name, agent_type,
                             RenderOf(render, SubagentTemplate(subagent_name)))
             output_file == commands_dir \o "/" \o subagent_name \o ".md"
         IN IF rendered.raised # "" THEN Result(made, rendered)
            ELSE Result(WriteText(made, output_file, rendered.value), OkValue(<<output_file>>))

\* TemplateEngine.generate_subagent_rules
GenerateSubagentRules(fs, tpl, render, subagent_name, agent_type) ==
    LET rendered == RenderSubagentTemplate(tpl, subagent_name, agent_type,
                        RenderOf(render, SubagentTemplate(subagent_name)))
    IN IF rendered.raised # "" THEN Result(fs, rendered)
       ELSE IF agent_type \notin {"claude-code", "cursor"}
       THEN Result(fs, ValueError(UnsupportedAgent))
       ELSE LET commands_dir == EngineCommandsDir(agent_type)
                output_file == commands_dir \o "/" \o subagent_name \o ".md"
            IN Result(WriteText(Mkdir(fs, commands_dir), output_file, rendered.value),
                      OkValue(<<output_file>>))

generate_rules(agent_type, rendered) ==
    /\ LET r == GenerateRules(FsState, templates, adapters, agent_type, rendered) IN
        /\ SetFs(r.fs)
        /\ last' = [op |-> "generate_rules",
                    arg |-> [agent_type |-> agent_type, rendered |-> rendered],
                    out |-> r.out]
    /\ UNCHANGED <<adapters, adapter, templates, runs>>

generate_subagent_rules(subagent_name, agent_type, render) ==
    /\ LET r == GenerateSubagentRules(FsState, templates, render, subagent_name, agent_type) IN
        /\ SetFs(r.fs)
        /\ last' = [op |-> "generate_subagent_rules",
                    arg |-> [subagent_name |-> subagent_name, agent_type |-> agent_type,
                             rendered |-> RenderOf(render, SubagentTemplate(subagent_name))],
                    out |-> r.out]
    /\ UNCHANGED <<adapters, adapter, templates, runs>>

WorkflowNotFound == "Workflow template not found"

\* TemplateEngine.render_coding_workflow: no validation of the rendered text.
RenderCodingWorkflow(tpl, render, workflow_name, agent_type) ==
    IF WorkflowTemplate(workflow_name) \notin tpl
    THEN ValueError(WorkflowNotFound)
    ELSE IF agent_type \notin {"claude-code", "cursor"}
    THEN ValueError(UnsupportedAgent)
    ELSE OkValue(RenderOf(render, WorkflowTemplate(workflow_name)))

\* The loop of install_coding_workflows over workflow_names[i..].
RECURSIVE InstallCodingWorkflowsFrom(_, _, _, _, _, _, _)
InstallCodingWorkflowsFrom(fs, tpl, render, workflow_names, agent_type, i, output_paths) ==
    IF i > Len(workflow_names)
    THEN Result(fs, OkValue(output_paths))
    ELSE LET rendered == RenderCodingWorkflow(tpl, render, workflow_names[i], agent_type) IN
         IF rendered.raised # "" THEN Result(fs, rendered)
         ELSE LET output_file ==
                      EngineCommandsDir(agent_type) \o "/" \o workflow_names[i] \o ".md"
              IN InstallCodingWorkflowsFrom(
                     WriteText(fs, output_file, rendered.value), tpl, render,
                     workflow_names, agent_type, i + 1, Append(output_paths, output_file))

\* install_coding_workflows rendering every name before it writes any file.
InstallCodingWorkflowsRenderFirst(fs, tpl, render, workflow_names, agent_type) ==
    IF agent_type \notin {"claude-code", "cursor"}
    THEN Result(fs, ValueError(UnsupportedAgent))
    ELSE LET made == Mkdir(fs, EngineCommandsDir(agent_type)) IN
         IF \E i \in 1..Len(workflow_names) :
               RenderCodingWorkflow(tpl, render, workflow_names[i], agent_type).raised # ""
         THEN Result(made, ValueError(WorkflowNotFound))
         ELSE InstallCodingWorkflowsFrom(made, tpl, render, workflow_names, agent_type, 1, <<>>)

\* TemplateEngine.install_coding_workflows: the directory is made before
\* the first template is rendered.
InstallCodingWorkflows(fs, tpl, render, workflow_names, agent_type) ==
    IF agent_type \notin {"claude-code", "cursor"}
    THEN Result(fs, ValueError(UnsupportedAgent))
    ELSE InstallCodingWorkflowsFrom(Mkdir(fs, EngineCommandsDir(agent_type)),
                                    tpl, render, workflow_names, agent_type, 1, <<>>)

\* What the templates render to when the tdd workflow's metadata block is broken.
WorkflowRenderings ==
    { PlainRendering,
      [res \in AllResources |->
          IF res = WorkflowTemplate("tdd") THEN BadDocument ELSE GoodDocument] }

render_coding_workflow(workflow_name, agent_type, render) ==
    /\ last' = [op |-> "render_coding_workflow",
                arg |-> [workflow_name |-> workflow_name, agent_type |-> agent_type,
                         rendered |-> RenderOf(render, WorkflowTemplate(workflow_name))],
                out |-> RenderCodingWorkflow(templates, render, workflow_name, agent_type)]
    /\ UNCHANGED <<adapters, adapter, templates, runs>>
    /\ FsUnchanged

install_coding_workflows(workflow_names, agent_type, render) ==
    /\ LET r == InstallCodingWorkflows(FsState, templates, render, workflow_names, agent_type) IN
        /\ SetFs(r.fs)
        /\ last' = [op |-> "install_coding_workflows",
                    arg |-> [workflow_names |-> workflow_names, agent_type |-> agent_type,
                             render |-> render],
                    out |-> r.out]
    /\ UNCHANGED <<adapters, adapter, templates, runs>>

\* -------------------------------------------------------------------- CLI

\* A command's outcome: the process's exit status.
Exit(code) == [raised |-> "", exit |-> code]

\* config_templates.TEMPLATES
TEMPLATES == {"development-team", "solo-developer", "enterprise-security"}

\* config_templates.generate_config_content
GenerateConfigContent(template, agent_type) ==
    IF agent_type = "claude-code"
    THEN <<"{", template \o " settings for claude-code", "}">>
    ELSE <<"# Cursor Configuration - " \o template, "## Core Settings">>

\* f"AGENT_CONFIG_{agent_type.upper()}.md"
AgentConfigDoc(agent_type) ==
    IF agent_type = "claude-code"
    THEN Path("AGENT_CONFIG_CLAUDE-CODE.md")
    ELSE Path("AGENT_CONFIG_CURSOR.md")

\* app._apply_configuration (the time stamp of the document is left out)
ApplyConfiguration(fs, template, agent_type, config_content) ==
    LET config_file == IF agent_type = "claude-code"
                       THEN Path(".claude-code-config.json")
                       ELSE Path(".cursorrules")
        configured == WriteText(fs, config_file, config_content)
    IN WriteText(configured, AgentConfigDoc(agent_type),
                 <<"# Coding Agent Configuration Applied", "## Template: " \o template,
                   "**Agent Type:** " \o agent_type>>)

\* app.configure_defaults; a.template_type is None when the option is not given.
ConfigureDefaults(fs, a) ==
    IF a.agent_type \notin {"claude-code", "cursor"} THEN Result(fs, Exit(1))
    ELSE IF a.list THEN Result(fs, Exit(0))
    ELSE IF ~DirExists(fs, Repo) THEN Result(fs, Exit(1))
    ELSE IF a.template_type = "None" THEN Result(fs, Exit(1))
    ELSE IF a.template_type \notin TEMPLATES THEN Result(fs, Exit(1))
    ELSE IF a.dry_run THEN Result(fs, Exit(0))
    ELSE Result(ApplyConfiguration(fs, a.template_type, a.agent_type,
                    GenerateConfigContent(a.template_type, a.agent_type)),
                Exit(0))

\* w.strip() on the pieces of a comma-separated option.
Strip(w) ==
    CASE w = " tdd" -> "tdd"
      [] w = " " -> ""
      [] OTHER -> w

\* [w.strip() for w in workflows.split(",") if w.strip()], on the pieces.
RECURSIVE ParseList(_)
ParseList(pieces) ==
    IF pieces = <<>> THEN <<>>
    ELSE IF Strip(Head(pieces)) = "" THEN ParseList(Tail(pieces))
    ELSE <<Strip(Head(pieces))>> \o ParseList(Tail(pieces))

\* available_workflows of configure_workflows
AvailableWorkflows == {"spec-driven", "tdd", "code-review", "research", "triage"}

\* configure_workflows without the check of the repository path.
ConfigureWorkflowsNoPathCheck(fs, reg, a) ==
    IF a.agent_type \notin SupportedAgents(reg) THEN Result(fs, Exit(1))
    ELSE LET workflow_list == ParseList(a.workflows) IN
         IF \E i \in 1..Len(workflow_list) : workflow_list[i] \notin AvailableWorkflows
         THEN Result(fs, Exit(1))
         ELSE LET created == CreateAdapterOutcome(reg, a.agent_type, Repo, None) IN
              IF created.raised # "" THEN Result(fs, Exit(1))
              ELSE IF a.dry_run THEN Result(fs, Exit(0))
              ELSE LET r == InstallWorkflows(created.value, fs, workflow_list) IN
                   Result(r.fs, Exit(IF r.out.raised = "" THEN 0 ELSE 1))

\* An exit with status 1 after the available names were printed.
ExitReporting(names) == [raised |-> "", exit |-> 1, available |-> names]

\* configure_workflows that installs the valid names it was given before it
\* reports the invalid ones.
ConfigureWorkflowsInstallsValid(fs, reg, a) ==
    IF a.agent_type \notin SupportedAgents(reg) THEN Result(fs, Exit(1))
    ELSE IF ~DirExists(fs, Repo) THEN Result(fs, Exit(1))
    ELSE LET workflow_list == ParseList(a.workflows)
             created == CreateAdapterOutcome(reg, a.agent_type, Repo, None)
             r == InstallWorkflows(created.value, fs,
                      SelectSeq(workflow_list, LAMBDA w : w \in AvailableWorkflows))
         IN IF a.dry_run THEN Result(fs, Exit(0))
            ELSE IF \E i \in 1..Len(workflow_list) : workflow_list[i] \notin AvailableWorkflows
            THEN Result(r.fs, ExitReporting(AvailableWorkflows))
            ELSE Result(r.fs, Exit(0))

\* app.configure_workflows
ConfigureWorkflows(fs, reg, a) ==
    IF a.agent_type \notin SupportedAgents(reg) THEN Result(fs, Exit(1))
    ELSE IF ~DirExists(fs, Repo) THEN Result(fs, Exit(1))
    ELSE LET workflow_list == ParseList(a.workflows) IN
         IF \E i \in 1..Len(workflow_list) : workflow_list[i] \notin AvailableWorkflows
         THEN Result(fs, ExitReporting(AvailableWorkflows))
         ELSE LET created == CreateAdapterOutcome(reg, a.agent_type, Repo, None) IN
              IF created.raised # "" THEN Result(fs, Exit(1))
              ELSE IF a.dry_run THEN Result(fs, Exit(0))
              ELSE LET r == InstallWorkflows(created.value, fs, workflow_list) IN
                   Result(r.fs, Exit(IF r.out.raised = "" THEN 0 ELSE 1))

\* The claude-code branch writing the supplied configuration alone.
McpApplyClaudeReplaces(fs, mcp_config) ==
    Result(WriteText(Mkdir(fs, ClaudeDir), ClaudeDir \o "/settings.json", JsonDump(mcp_config)),
           Exit(IF mcp_config.t = "obj" THEN 0 ELSE 1))

\* The non-dry-run branch of configure_mcp for claude-code: merge into
\* .claude/settings.json; a settings text that is not JSON counts as empty.
McpApplyClaude(fs, mcp_config) ==
    LET made == Mkdir(fs, ClaudeDir)
        target_file == ClaudeDir \o "/settings.json"
        loaded == IF FileExists(made, target_file)
                  THEN JsonLoad(made.files[target_file])
                  ELSE [ok |-> TRUE, val |-> Obj(<<>>)]
        existing_settings == IF loaded.ok THEN loaded.val ELSE Obj(<<>>)
    IN IF existing_settings.t # "obj" \/ mcp_config.t # "obj"
       THEN Result(made, Exit(1))
       ELSE Result(WriteText(made, target_file,
                       JsonDump(Obj(DictUpdate(existing_settings.m, mcp_config.m)))),
                   Exit(0))

\* The non-dry-run branch for cursor: .cursor/mcp.json is written whole;
\* the summary that follows fails on a configuration that is no mapping.
McpApplyCursor(fs, mcp_config) ==
    LET written == WriteText(Mkdir(fs, CursorDir), CursorDir \o "/mcp.json",
                             JsonDump(mcp_config))
    IN Result(written, Exit(IF mcp_config.t = "obj" THEN 0 ELSE 1))

\* configure_mcp applying the configuration even under --dry-run.
ConfigureMcpDryRunIgnored(fs, reg, a) ==
    IF a.agent_type \notin SupportedAgents(reg) THEN Result(fs, Exit(1))
    ELSE IF ~DirExists(fs, Repo) THEN Result(fs, Exit(1))
    ELSE LET parsed == JsonLoad(a.config) IN
         IF ~parsed.ok THEN Result(fs, Exit(1))
         ELSE IF a.agent_type = "claude-code" THEN McpApplyClaude(fs, parsed.val)
         ELSE McpApplyCursor(fs, parsed.val)

\* app.configure_mcp; a.config is the text of the --config option.
ConfigureMcp(fs, reg, a) ==
    IF a.agent_type \notin SupportedAgents(reg) THEN Result(fs, Exit(1))
    ELSE IF ~DirExists(fs, Repo) THEN Result(fs, Exit(1))
    ELSE LET parsed == JsonLoad(a.config) IN
         IF ~parsed.ok THEN Result(fs, Exit(1))
         ELSE IF a.dry_run THEN Result(fs, Exit(0))
         ELSE IF a.agent_type = "claude-code" THEN McpApplyClaude(fs, parsed.val)
         ELSE McpApplyCursor(fs, parsed.val)

\* available_guards of configure_supervisor
AvailableGuards == {"file-guard", "tdd-guard", "self-review"}

\* Methods ClaudeRulesManager defines beyond the BaseAdapter contract.
ClaudeExtraMethods == {"load_settings_template", "list_available_templates",
                       "apply_settings_template"}

\* app.configure_supervisor: the adapter is always the claude-code one, and
\* a method the adapter lacks is an AttributeError, reported with exit 1.
ConfigureSupervisor(fs, reg, a) ==
    IF ~DirExists(fs, Repo) THEN Result(fs, Exit(1))
    ELSE LET guard_list == ParseList(a.guards) IN
         IF \E i \in 1..Len(guard_list) : guard_list[i] \notin AvailableGuards
         THEN Result(fs, Exit(1))
         ELSE LET created == CreateAdapterOutcome(reg, "claude-code", Repo, None) IN
              IF created.raised # "" THEN Result(fs, Exit(1))
              ELSE IF a.dry_run THEN Result(fs, Exit(0))
              ELSE IF "install_supervisor" \notin ClaudeExtraMethods
              THEN Result(fs, Exit(1))
              ELSE Result(fs, Exit(0))

\* available_subagents and available_workflows of init
InitAvailableSubagents ==
    << "build_test_run", "configure_defaults", "configure_mcp", "configure_rules",
       "configure_supervisor", "detect_conflicting_instructions",
       "improve_code_quality_checks", "improve_debuggability" >>
InitAvailableWorkflows == <<"code-review", "spec-driven", "tdd">>

\* bool(s) of an option's value: "None" stands for an option not given,
\* and the empty string is as false as None.
Truthy(s) == s \notin {"None", ""}

\* init's choice with every given option taken for a name, the empty one too.
InitSubagentsToInstallGivenIsNamed(a) ==
    LET want_subagents == IF a.subagent # "None" \/ a.workflow # "None"
                             THEN a.subagent # "None"
                             ELSE ~a.workflows_only
    IN IF a.subagent # "None" THEN <<a.subagent>>
       ELSE IF want_subagents THEN InitAvailableSubagents ELSE <<>>

\* init's choice of what to install.
InitSubagentsToInstall(a) ==
    LET want_subagents == IF Truthy(a.subagent) \/ Truthy(a.workflow)
                             THEN Truthy(a.subagent)
                             ELSE ~a.workflows_only
    IN IF Truthy(a.subagent) THEN <<a.subagent>>
       ELSE IF want_subagents THEN InitAvailableSubagents ELSE <<>>

InitWorkflowsToInstall(a) ==
    LET want_workflows == IF Truthy(a.subagent) \/ Truthy(a.workflow)
                             THEN Truthy(a.workflow)
                             ELSE ~a.subagents_only
    IN IF Truthy(a.workflow) THEN <<a.workflow>>
       ELSE IF want_workflows THEN InitAvailableWorkflows ELSE <<>>

\* The two loops of init: every failure is printed and skipped.
RECURSIVE InitInstallSubagents(_, _, _, _, _, _, _)
InitInstallSubagents(fs, tpl, render, names, agent_type, i, all_output_paths) ==
    IF i > Len(names) THEN Result(fs, OkValue(all_output_paths))
    ELSE LET r == GenerateSubagentRules(fs, tpl, render, names[i], agent_type) IN
         InitInstallSubagents(r.fs, tpl, render, names, agent_type, i + 1,
             IF r.out.raised = "" THEN all_output_paths \o r.out.value ELSE all_output_paths)

RECURSIVE InitInstallWorkflows(_, _, _, _, _, _, _)
InitInstallWorkflows(fs, tpl, render, names, agent_type, i, all_output_paths) ==
    IF i > Len(names) THEN Result(fs, OkValue(all_output_paths))
    ELSE LET r == InstallCodingWorkflows(fs, tpl, render, <<names[i]>>, agent_type) IN
         InitInstallWorkflows(r.fs, tpl, render, names, agent_type, i + 1,
             IF r.out.raised = "" THEN all_output_paths \o r.out.value ELSE all_output_paths)

\* The outcome of init, with what it chose to install and what it installed.
InitOutcome(code, subagents, workflows, paths) ==
    [raised |-> "", exit |-> code, subagents_to_install |-> subagents,
     workflows_to_install |-> workflows, all_output_paths |-> paths]

\* app.init
InitCommand(fs, tpl, render, a) ==
    IF a.agent_type \notin {"claude-code", "cursor"}
    THEN Result(fs, InitOutcome(1, <<>>, <<>>, <<>>))
    ELSE IF ~DirExists(fs, Repo)
    THEN Result(fs, InitOutcome(1, <<>>, <<>>, <<>>))
    ELSE LET subagents_to_install == InitSubagentsToInstall(a)
             workflows_to_install == InitWorkflowsToInstall(a)
         IN IF a.dry_run
            THEN Result(fs, InitOutcome(0, subagents_to_install, workflows_to_install, <<>>))
            ELSE LET subs == InitInstallSubagents(fs, tpl, render, subagents_to_install,
                                                  a.agent_type, 1, <<>>)
                     wfs == InitInstallWorkflows(subs.fs, tpl, render, workflows_to_install,
                                                 a.agent_type, 1, subs.out.value)
                 IN Result(wfs.fs, InitOutcome(0, subagents_to_install,
                                               workflows_to_install, wfs.out.value))

\* The outcome of doctor: the exit status and the two lists it collects.
DoctorOutcome(code, issues_found, repairs_made) ==
    [raised |-> "", exit |-> code, issues_found |-> issues_found,
     repairs_made |-> repairs_made]

\* The agent checks of doctor: the issue each agent's check appends.
DoctorAgentIssues(fs, agent) ==
    IF agent = "claude-code"
    THEN IF FileExists(fs, Path("CLAUDE.md")) THEN <<>> ELSE <<"claude_rules_missing">>
    ELSE IF agent = "cursor"
    THEN IF DirExists(fs, CursorRulesDir) THEN <<>> ELSE <<"cursor_rules_missing">>
    ELSE <<>>

\* The loop "for issue in issues_found" of the repair suggestions.
RECURSIVE DoctorRepairs(_)
DoctorRepairs(issues_found) ==
    IF issues_found = <<>> THEN <<>>
    ELSE (CASE Head(issues_found) = "claude_rules_missing" -> <<"claude_rules_suggestion">>
            [] Head(issues_found) = "cursor_rules_missing" -> <<"cursor_rules_suggestion">>
            [] OTHER -> <<>>)
         \o DoctorRepairs(Tail(issues_found))

\* app.doctor; a.agent_type is "None" when the option is not given, and
\* then both registered agents are checked, in the registry's order.
Doctor(fs, reg, a) ==
    IF ~DirExists(fs, Repo) THEN Result(fs, DoctorOutcome(1, <<>>, <<>>))
    ELSE IF a.agent_type # "None" /\ a.agent_type \notin SupportedAgents(reg)
    THEN Result(fs, DoctorOutcome(1, <<>>, <<>>))
    ELSE LET basic == IF DirExists(fs, Path(".git")) THEN <<>> ELSE <<"not_git_repo">>
             issues_found ==
                 IF a.agent_type = "None"
                 THEN basic \o DoctorAgentIssues(fs, "claude-code")
                            \o DoctorAgentIssues(fs, "cursor")
                 ELSE basic \o DoctorAgentIssues(fs, a.agent_type)
         IN Result(fs, DoctorOutcome(0, issues_found,
                           IF a.repair THEN DoctorRepairs(issues_found) ELSE <<>>))

\* One run of a subcommand: the whole process, from arguments to exit.
Command(op, a, r) ==
    /\ runs < MaxRuns
    /\ runs' = runs + 1
    /\ SetFs(r.fs)
    /\ last' = [op |-> op, arg |-> a, out |-> r.out]
    /\ UNCHANGED <<adapters, adapter, templates>>

configure_defaults(a) == Command("configure_defaults", a, ConfigureDefaults(FsState, a))

configure_workflows(a) ==
    Command("configure_workflows", a, ConfigureWorkflows(FsState, adapters, a))

configure_mcp(a) == Command("configure_mcp", a, ConfigureMcp(FsState, adapters, a))

configure_supervisor(a) ==
    Command("configure_supervisor", a, ConfigureSupervisor(FsState, adapters, a))

doctor(a) == Command("doctor", a, Doctor(FsState, adapters, a))

init(a, render) == Command("init", a, InitCommand(FsState, templates, render, a))

\* ------------------------------------------------------------------ Init

\* Settings documents a target may hold before the program runs: a mapping,
\* a text cut short (not JSON), and a JSON number (no mapping).
InitialSettingsTexts ==
    { JsonDump(Obj(<<Member("y", Num("2"))>>)),
      <<"{", Quote("x")>>,
      <<"1">> }

\* The target before the program runs: missing, empty, or holding a
\* settings document of each tool.
InitialFileSystems ==
    { [exists |-> e, dirs |-> {}, files |-> <<>>] : e \in BOOLEAN }
    \cup { [exists |-> TRUE, dirs |-> {ClaudeDir, CursorDir},
            files |-> [p \in {ClaudeDir \o "/settings.json", CursorDir \o "/settings.json"}
                          |-> text]] : text \in InitialSettingsTexts }

Init ==
    /\ adapters = InitialAdapters
    /\ adapter = None
    /\ \E fs \in InitialFileSystems :
          /\ targetExists = fs.exists
          /\ dirs = fs.dirs
          /\ files = fs.files
    /\ templates \in PackageLayouts
    /\ last = [op |-> "start", arg |-> None, out |-> [raised |-> ""]]
    /\ runs = 0

\* What ai-commands.json may hold before the program runs: a list with the
\* user's own version of a default command; a list with a number and the
\* same name twice; a mapping; a text cut short; a list whose entry has a
\* list for its name.
InitialAiCommands ==
    { JsonDump(Arr(<<Obj(<<Member("name", Str("safe-commit")), Member("prompt", Str("mine"))>>)>>)),
      JsonDump(Arr(<<Num("1"), Obj(<<Member("name", Str("run-tests"))>>),
                     Obj(<<Member("name", Str("run-tests")), Member("prompt", Str("mine"))>>),
                     Obj(<<Member("name", Str("my-cmd"))>>)>>)),
      JsonDump(Obj(<<Member("x", Num("1"))>>)),
      <<"[", "1">>,
      JsonDump(Arr(<<Obj(<<Member("name", Arr(<<>>))>>)>>)) }

\* What ~/.zshrc may hold before the program runs.
InitialRcTexts ==
    { <<"export EDITOR=vi">>,
      <<"export EDITOR=vi", "# Cursor AI Safety Shell Protection">>,
      <<"# source /opt/old/bash_protection.sh">> }

\* The files of a target with or without ai-commands.json, and of a home
\* directory with or without ~/.zshrc.
InitialTargetFiles == {<<>>} \cup {[p \in {AiCommandsFile} |-> text] : text \in InitialAiCommands}
InitialHomeFiles == {<<>>} \cup {[p \in {"~/.zshrc"} |-> text] : text \in InitialRcTexts}

\* A project the cursor handler's safety setup runs on.
InitialCursorProjects ==
    { [exists |-> FALSE, dirs |-> {}, files |-> home] : home \in InitialHomeFiles }
    \cup { [exists |-> TRUE, dirs |-> {}, files |-> MapUpdate(target, home)] :
              target \in InitialTargetFiles, home \in InitialHomeFiles }

InitCursor ==
    /\ adapters = InitialAdapters
    /\ adapter = None
    /\ \E fs \in InitialCursorProjects :
          /\ targetExists = fs.exists
          /\ dirs = fs.dirs
          /\ files = fs.files
    /\ templates \in PackageLayouts
    /\ last = [op |-> "start", arg |-> None, out |-> [raised |-> ""]]
    /\ runs = 0

NextFactory ==
    \/ \E t \in AgentTypes, c \in Configs : create_adapter(t, c)
    \/ get_supported_agents

NextRules ==
    \/ NextFactory
    \/ \E c \in RulesContents : write_rules(c)
    \/ get_output_paths

SpecRules == Init /\ [][NextRules]_vars

NextSettings ==
    \/ \E t \in AgentTypes : create_adapter(t, None)
    \/ \E m \in SettingsArgs : configure_settings(m)

SpecSettings == Init /\ [][NextSettings]_vars

NextRender ==
    \/ \E t \in AgentTypes, r \in RenderedTexts(MaxLines) : render_configure_rules(t, r)
    \/ \E n \in SubagentNames, t \in AgentTypes, r \in RenderedTexts(MaxLines) :
          render_subagent_template(n, t, r)

SpecRender == Init /\ [][NextRender]_vars

NextWorkflows ==
    \/ \E t \in AgentTypes : create_adapter(t, None)
    \/ \E l \in ListsUpTo(WorkflowNames, MaxNames) : install_workflows(l)

SpecWorkflows == Init /\ [][NextWorkflows]_vars

NextRegistry ==
    \/ NextFactory
    \/ \E x \in AgentTypes : mutate_supported_list(x)

SpecRegistry == Init /\ [][NextRegistry]_vars

\* Workflow names handed to the template engine: one the package may hold
\* a template for, one it never does.
EngineWorkflowNames == {"tdd", "my-flow"}

NextEngine ==
    \/ \E n \in EngineWorkflowNames, t \in AgentTypes, render \in WorkflowRenderings :
          render_coding_workflow(n, t, render)
    \/ \E l \in ListsUpTo(EngineWorkflowNames, MaxNames), t \in AgentTypes,
          render \in WorkflowRenderings :
          install_coding_workflows(l, t, render)

SpecEngine == Init /\ [][NextEngine]_vars

\* What the configure_rules template renders to: a document with a good
\* block, one with a broken block, one whose block is never closed, and one
\* without a block.
GeneratedTexts ==
    {GoodDocument, BadDocument, <<"---", "tools: [Read">>, <<"name: rules">>}

NextGenerate ==
    \/ \E t \in AgentTypes, r \in GeneratedTexts : generate_rules(t, r)
    \/ \E n \in SubagentNames, t \in AgentTypes, render \in Renderings :
          generate_subagent_rules(n, t, render)

SpecGenerate == Init /\ [][NextGenerate]_vars

NextCursorSafety ==
    \/ \E t \in AgentTypes : create_adapter(t, None)
    \/ install_ai_commands
    \/ \E shell \in Shells, auto_install \in BOOLEAN : setup_bash_protection(shell, auto_install)

SpecCursorSafety == InitCursor /\ [][NextCursorSafety]_vars

NextTemplate ==
    \/ \E t \in AgentTypes : create_adapter(t, None)
    \/ \E template \in SettingsTemplates, dry_run \in BOOLEAN, i \in DOMAIN ClockReadings :
          apply_settings_template(template, dry_run, i)

SpecTemplate == Init /\ [][NextTemplate]_vars

NextSubagents ==
    \/ \E t \in AgentTypes : create_adapter(t, None)
    \/ \E l \in ListsUpTo(SubagentNames, MaxNames) : install_subagents(l)

SpecSubagents == Init /\ [][NextSubagents]_vars

NextContext ==
    \/ \E t \in AgentTypes, c \in VariableConfigs : create_adapter(t, c)
    \/ get_template_variables
    \/ \E t \in AgentTypes, c \in AgentConfigDocuments, x \in AdditionalContexts :
          render_configure_rules_context(t, c, x)

SpecContext == Init /\ [][NextContext]_vars

\* The command lines the subcommands are run with.
DefaultsArgs ==
    [agent_type : AgentTypes, template_type : {"None", "development-team", "no-such-template"},
     auto_detect : {TRUE}, dry_run : BOOLEAN, list : BOOLEAN]

WorkflowsArgs ==
    [agent_type : AgentTypes, workflows : {<<"tdd">>, <<" tdd", " ">>, <<"my-flow">>, <<"tdd", "my-flow">>}, dry_run : BOOLEAN]

McpConfigs ==
    { JsonDump(Obj(<<Member("x", Num("1"))>>)), JsonDump(Obj(<<Member("y", Num("1"))>>)),
      <<"{", Quote("x")>>, <<"1">> }

McpArgs == [agent_type : AgentTypes, config : McpConfigs, dry_run : BOOLEAN]

SupervisorArgs == [guards : {<<"file-guard">>, <<"no-such-guard">>}, dry_run : BOOLEAN]

InitSelections ==
    { [subagents_only |-> FALSE, workflows_only |-> FALSE, subagent |-> "None", workflow |-> "None"],
      [subagents_only |-> TRUE, workflows_only |-> FALSE, subagent |-> "None", workflow |-> "None"],
      [subagents_only |-> FALSE, workflows_only |-> TRUE, subagent |-> "None", workflow |-> "None"],
      [subagents_only |-> FALSE, workflows_only |-> FALSE, subagent |-> "no-such-agent", workflow |-> "None"],
      [subagents_only |-> FALSE, workflows_only |-> FALSE, subagent |-> "None", workflow |-> "tdd"] }

InitArgs ==
    { [agent_type |-> t, dry_run |-> d, subagents_only |-> s.subagents_only,
       workflows_only |-> s.workflows_only, subagent |-> s.subagent, workflow |-> s.workflow] :
        t \in AgentTypes, d \in BOOLEAN, s \in InitSelections }

DoctorArgs == [repair : BOOLEAN, agent_type : AgentTypes \cup {"None"}]

\* doctor and the command its repair suggestions name, on one repository.
NextDoctor ==
    \/ \E a \in DoctorArgs : doctor(a)
    \/ \E a \in DefaultsArgs : configure_defaults(a)

SpecDoctor == Init /\ [][NextDoctor]_vars

\* Every combination of init's selection options: the two flags, and each
\* of --subagent and --workflow not given, given empty, or given a name.
InitSelectionArgs ==
    [agent_type : AgentTypes, dry_run : BOOLEAN,
     subagents_only : BOOLEAN, workflows_only : BOOLEAN,
     subagent : {"None", "", "configure_rules"},
     workflow : {"None", "", "tdd"}]

NextInit == \E a \in InitSelectionArgs : init(a, PlainRendering)

SpecInit == Init /\ [][NextInit]_vars

\* The subcommands, run one after another on the same repository.
NextCli ==
    \/ \E a \in DefaultsArgs : configure_defaults(a)
    \/ \E a \in WorkflowsArgs : configure_workflows(a)
    \/ \E a \in McpArgs : configure_mcp(a)
    \/ \E a \in SupervisorArgs : configure_supervisor(a)
    \/ \E a \in InitArgs, render \in Renderings : init(a, render)

SpecCli == Init /\ [][NextCli]_vars
\* ---------------------------------------------------------------- claims

Range(f) == {f[i] : i \in DOMAIN f}

\* The files a step created or changed.
Written == {p \in DOMAIN files' : p \notin DOMAIN files \/ files'[p] # files[p]}

\* The output format the documentation gives for each registered identifier.
DocumentedFormat(t) == IF t = "claude-code" THEN "single_file" ELSE "multiple_files"

\* C1: for each registered identifier (claude-code, cursor), whatever the
\* config, create_adapter returns a handler whose agent_name is the
\* identifier and whose output_format is the documented one.
C1_DispatchMatchesIdentifier ==
    (last.op = "create_adapter" /\ last.arg \in {"claude-code", "cursor"}) =>
        /\ last.out.raised = ""
        /\ agent_name(last.out.value.cls) = last.arg
        /\ output_format(last.out.value.cls) = DocumentedFormat(last.arg)
        /\ last.out.value.target_path = Repo

C1_Witness ==
    /\ last.op = "create_adapter"
    /\ last.arg = "cursor"
    /\ last.out.raised = ""
    /\ last.out.value.config # <<>>

\* C2: create_adapter with an identifier that is not registered raises
\* ValueError "Unsupported agent type", returns no handler, and the message
\* lists exactly the identifiers of the registry.
C2_UnregisteredAlwaysFails ==
    (last.op = "create_adapter" /\ last.arg \notin {"claude-code", "cursor"}) =>
        /\ last.out.raised = "ValueError"
        /\ last.out.msg = "Unsupported agent type"
        /\ "value" \notin DOMAIN last.out
        /\ last.out.supported = DOMAIN adapters
        /\ last.out.supported = {"claude-code", "cursor"}

C2_Witness ==
    /\ last.op = "create_adapter"
    /\ last.arg = "unknown-agent"
    /\ last.out.raised = "ValueError"
    /\ adapter # None

\* The rules file of each handler.
RulesFile(a) ==
    IF a.cls = ClaudeRulesManager
    THEN Path("CLAUDE.md")
    ELSE CursorRulesDir \o "/coding-agent-rules.mdc"

\* C4: after a write_rules call that returned, the handler's rules file
\* holds exactly the content of that call (nothing of earlier calls), and
\* making the same call again would leave the file system as it is.
C4_LastWriteWins ==
    (last.op = "write_rules" /\ last.out.raised = "") =>
        /\ FileExists(FsState, RulesFile(adapter))
        /\ files[RulesFile(adapter)] = last.arg
        /\ WriteRules(adapter, FsState, templates, last.arg) = Result(FsState, Ok)

\* A second write_rules, with another content, over an existing rules file.
C4_Witness ==
    /\ last.op = "write_rules"
    /\ last.out.raised = ""
    /\ last.arg = <<"# rules B">>
    /\ \A a \in {ClaudeRulesManager, CursorRulesManager} :
          /\ FileExists(FsState, RulesFile([cls |-> a]))
          /\ files[RulesFile([cls |-> a])] \in {<<"# rules A">>, <<"# rules B">>}
    /\ \E a \in {ClaudeRulesManager, CursorRulesManager} :
          files[RulesFile([cls |-> a])] = <<"# rules A">>

\* A dict as the mapping it stands for: key -> value.
AsMap(m) == [k \in {m[i].k : i \in 1..Len(m)} |-> (CHOOSE e \in Range(m) : e.k = k).v]

\* The shallow override of mapping d by mapping s: s wins, value by value.
Override(d, s) ==
    [k \in DOMAIN d \cup DOMAIN s |-> IF k \in DOMAIN s THEN s[k] ELSE d[k]]

\* The mapping a settings text holds (the empty one when there is no file).
DocumentOf(fls, p) == IF p \in DOMAIN fls THEN AsMap(JsonLoad(fls[p]).val.m) ELSE <<>>

\* The text is a JSON object.
IsDocument(text) == JsonLoad(text).ok /\ JsonLoad(text).val.t = "obj"

\* C3: every configure_settings call on a target whose settings file is a
\* mapping (or is missing) returns and leaves a settings document equal to
\* the shallow override of the document before the call by the call's
\* mapping: keys the call gives take its values whole, all other keys keep
\* theirs.  Over a sequence of calls this is the left-to-right override of
\* the initial document.
C3_SettingsShallowOverride ==
    [][(/\ last'.op = "configure_settings"
        /\ (SettingsFile(adapter') \in DOMAIN files => IsDocument(files[SettingsFile(adapter')]))) =>
          /\ last'.out.raised = ""
          /\ last'.out.value = SettingsFile(adapter')
          /\ last'.out.value \in DOMAIN files'
          /\ IsDocument(files'[SettingsFile(adapter')])
          /\ DocumentOf(files', SettingsFile(adapter')) =
                Override(DocumentOf(files, SettingsFile(adapter')), AsMap(last'.arg))
          /\ Written \subseteq {SettingsFile(adapter')}]_vars

\* A nested mapping under x was replaced by another one while the initial
\* key y kept its initial value.
C3_Witness ==
    /\ last.op = "configure_settings"
    /\ last.out.raised = ""
    /\ last.arg = <<Member("x", Obj(<<Member("b", Num("2"))>>))>>
    /\ adapter.cls = ClaudeRulesManager
    /\ files[SettingsFile(adapter)] =
          JsonDump(Obj(<<Member("y", Num("2")), Member("x", Obj(<<Member("b", Num("2"))>>))>>))

\* C5: the paths get_output_paths returns are exactly the files write_rules
\* creates or overwrites: after a write_rules call that returned, every
\* returned path holds the content written, and the call created or changed
\* no file outside the returned paths.
C5_OutputPathsAreWritten ==
    [][(last'.op = "write_rules" /\ last'.out.raised = "") =>
          /\ \A p \in Range(OutputPaths(adapter')) :
                p \in DOMAIN files' /\ files'[p] = last'.arg
          /\ Written \subseteq Range(OutputPaths(adapter'))]_vars

\* C6: install_workflows never fails, whatever the names; it returns one
\* path per list entry, in list order, each <commands dir>/<name>.md of
\* the handler, a file that exists afterwards; and it creates or changes no
\* file but those.
C6_Returned ==
    last.op = "install_workflows" =>
        /\ last.out.raised = ""
        /\ Len(last.out.value) = Len(last.arg)
        /\ \A i \in 1..Len(last.arg) :
              /\ last.out.value[i] =
                    (IF adapter.cls = ClaudeRulesManager
                     THEN Path(".claude/commands/") ELSE Path(".cursor/commands/"))
                    \o last.arg[i] \o ".md"
              /\ FileExists(FsState, last.out.value[i])

C6_InstallWorkflowsNeverFails ==
    /\ []C6_Returned
    /\ [][last'.op = "install_workflows" =>
            /\ Written \subseteq Range(last'.out.value)
            /\ Cardinality(Range(last'.out.value)) = Cardinality(Range(last'.arg))
            /\ \A p \in DOMAIN files : p \in DOMAIN files']_vars

\* An unknown name, twice in one list, installed on a target that was missing.
C6_Witness ==
    /\ last.op = "install_workflows"
    /\ last.arg = <<"my-flow", "my-flow">>
    /\ last.out.raised = ""
    /\ adapter.cls = CursorRulesManager
    /\ DOMAIN files = {Path(".cursor/commands/my-flow.md")}
\* The text has a leading metadata block: its first line is the marker and
\* so is a later one.
HasLeadingBlock(text) == text[1] = "---" /\ \E i \in 2..Len(text) : text[i] = "---"

\* The block's content: the lines between the first line and the next marker.
BlockOf(text) ==
    LET close == CHOOSE i \in 2..Len(text) :
                    text[i] = "---" /\ \A j \in 2..(i - 1) : text[j] # "---"
    IN [j \in 1..(close - 2) |-> text[j + 1]]

\* The call got as far as rendering its template.
WasRendered ==
    \/ /\ last.op = "render_configure_rules"
       /\ last.arg.agent_type \in DOMAIN adapters
       /\ AgentConfigFile(last.arg.agent_type) \in templates
       /\ SubagentTemplate("configure_rules") \in templates
    \/ /\ last.op = "render_subagent_template"
       /\ last.arg.agent_type \in {"claude-code", "cursor"}
       /\ SubagentTemplate(last.arg.subagent_name) \in templates

\* C7: in render_configure_rules and render_subagent_template, a rendered
\* text with a leading metadata block whose content does not parse makes
\* the call fail with the "Invalid YAML frontmatter" error, which no other
\* failure of these calls produces; a text whose first line is not the
\* marker is returned as it is.
C7_MalformedFrontmatterRejected ==
    /\ WasRendered =>
          /\ (HasLeadingBlock(last.arg.rendered)
              /\ YamlSafeLoad(BlockOf(last.arg.rendered)).raised # "") =>
                 last.out = ValueError(InvalidFrontmatter)
          /\ last.arg.rendered[1] # "---" => last.out = OkValue(last.arg.rendered)
    /\ (/\ last.op \in {"render_configure_rules", "render_subagent_template"}
        /\ last.out.raised # ""
        /\ "msg" \in DOMAIN last.out
        /\ last.out.msg = InvalidFrontmatter) =>
          /\ WasRendered
          /\ HasLeadingBlock(last.arg.rendered)
          /\ YamlSafeLoad(BlockOf(last.arg.rendered)).raised # ""

\* A malformed block rejected although a later block of the text is fine.
C7_Witness ==
    /\ last.op = "render_subagent_template"
    /\ last.arg.rendered = <<"---", "tools: [Read", "---">>
    /\ last.out = ValueError(InvalidFrontmatter)

\* A text whose malformed block does not lead it is returned.
C7_WitnessNoBlock ==
    /\ last.op = "render_configure_rules"
    /\ last.arg.rendered = <<"name: rules", "tools: [Read", "---">>
    /\ last.out.raised = ""

\* A step that runs one subcommand of the CLI.
CommandStep == runs' = runs + 1

DryRunCommands ==
    {"configure_defaults", "configure_workflows", "configure_mcp", "configure_supervisor", "init"}

\* C8: a run of configure-defaults, configure-workflows, configure-mcp,
\* configure-supervisor or init with --dry-run leaves the target as it was:
\* no directory and no file is created, changed or removed.
C8_DryRunLeavesTargetUnchanged ==
    [][(CommandStep /\ last'.op \in DryRunCommands /\ last'.arg.dry_run) => FsUnchanged]_vars

\* A dry run that got as far as its preview, on a target the real run writes to.
C8_Witness ==
    /\ last.op = "configure_mcp"
    /\ last.arg.dry_run
    /\ last.arg.agent_type = "cursor"
    /\ last.out.exit = 0
    /\ ~FileExists(FsState, CursorDir \o "/mcp.json")

ValidatingCommands == {"configure_defaults", "configure_workflows", "configure_mcp", "init"}

\* The run is given an unsupported agent type or a repository path that
\* does not exist.
InvalidInvocation ==
    \/ last'.arg.agent_type \notin SupportedAgents(adapters)
    \/ ~targetExists

ListsTemplates ==
    /\ last'.op = "configure_defaults"
    /\ last'.arg.list
    /\ last'.arg.agent_type \in SupportedAgents(adapters)

C10_InitExitReflectsInstalls ==
    (last.op = "init" /\ ~last.arg.dry_run /\ targetExists
        /\ last.arg.agent_type \in {"claude-code", "cursor"})
    => (last.out.exit = 0 <=>
            Len(last.out.all_output_paths) =
                Len(last.out.subagents_to_install) + Len(last.out.workflows_to_install))


\* The documented per-tool defaults.
DocumentedDefaults(cls) ==
    IF cls = ClaudeRulesManager
    THEN [agent_type |-> "claude-code", output_file |-> "CLAUDE.md"]
    ELSE [agent_type |-> "cursor", output_file |-> ".cursor/rules/"]

\* C11: get_template_variables returns the union of the per-tool defaults
\* and the handler's config; a key of the config has the config's value
\* (agent_type and output_file too), a default key the config lacks keeps
\* its default; and the call leaves the handler's stored config as it was.
C11_Variables ==
    last.op = "get_template_variables" =>
        LET v == last.out.value
            d == DocumentedDefaults(adapter.cls)
        IN /\ DOMAIN v = DOMAIN d \cup DOMAIN adapter.config
           /\ \A k \in DOMAIN adapter.config : v[k] = adapter.config[k]
           /\ \A k \in DOMAIN d \ DOMAIN adapter.config : v[k] = d[k]

C11_ConfigWinsOverDefaults ==
    /\ []C11_Variables
    /\ [][last'.op = "get_template_variables" => adapter' = adapter]_vars

\* The config's agent_type replaced the default one; output_file kept its default.
C11_Witness ==
    /\ last.op = "get_template_variables"
    /\ adapter.cls = CursorRulesManager
    /\ adapter.config = [agent_type |-> "from-config"]
    /\ last.out.value = [agent_type |-> "from-config", output_file |-> ".cursor/rules/"]

\* C12: the context of render_configure_rules gives every key the value of
\* the highest source that defines it, caller's additional_context over the
\* agent configuration document over the per-tool defaults, and holds every
\* key any of the three defines.
C12_ContextPrecedence ==
    (last.op = "render_configure_rules_context" /\ last.arg.agent_type \in DOMAIN adapters) =>
        LET ctx == last.out.value
            x == IF last.arg.additional_context = None THEN <<>>
                 ELSE last.arg.additional_context
            c == last.arg.agent_config
            d == DocumentedDefaults(adapters[last.arg.agent_type])
        IN /\ last.out.raised = ""
           /\ DOMAIN ctx = DOMAIN x \cup DOMAIN c \cup DOMAIN d
           /\ \A k \in DOMAIN ctx :
                 ctx[k] = IF k \in DOMAIN x THEN x[k]
                          ELSE IF k \in DOMAIN c THEN c[k] ELSE d[k]

\* A key the configuration and the defaults both define, without the
\* caller naming it: the configuration's value is in the context.
C12_Witness ==
    /\ last.op = "render_configure_rules_context"
    /\ last.arg.agent_type = "claude-code"
    /\ last.arg.agent_config = [agent_type |-> "from-config", features |-> "from-config"]
    /\ last.arg.additional_context = [features |-> "from-caller", project |-> "from-caller"]
    /\ last.out.raised = ""
    /\ last.out.value.agent_type = "from-config"
    /\ last.out.value.features = "from-caller"
    /\ last.out.value.output_file = "CLAUDE.md"


\* C13: install_subagents never fails, whatever the names; it returns one
\* path per list entry, in list order, each <agent dir>/<name>.md
\* (.claude/agents, .cursor/commands); the file there is the copy of the
\* template <name>.jinja2.md when the package has it and a synthesized
\* placeholder otherwise.
C13_InstallSubagents ==
    last.op = "install_subagents" =>
        /\ last.out.raised = ""
        /\ Len(last.out.value) = Len(last.arg)
        /\ \A i \in 1..Len(last.arg) :
              LET p == last.out.value[i] IN
              /\ p = (IF adapter.cls = ClaudeRulesManager
                      THEN Path(".claude/agents/") ELSE Path(".cursor/commands/"))
                     \o last.arg[i] \o ".md"
              /\ FileExists(FsState, p)
              /\ IF ("templates/subagents/" \o last.arg[i] \o ".jinja2.md") \in templates
                 THEN files[p] = TemplateSource("templates/subagents/" \o last.arg[i] \o ".jinja2.md")
                 ELSE files[p] \in {ClaudeGenerateSubagentTemplate(last.arg[i]),
                                    CursorGenerateCommandTemplate(last.arg[i])}

\* A name with a template and a name without one, installed in one call.
C13_Witness ==
    /\ last.op = "install_subagents"
    /\ last.arg = <<"no-such-agent", "configure_rules">>
    /\ adapter.cls = ClaudeRulesManager
    /\ SubagentTemplate("configure_rules") \in templates
    /\ last.out.raised = ""
    /\ files[Path(".claude/agents/no-such-agent.md")] =
          ClaudeGenerateSubagentTemplate("no-such-agent")


\* C14 as stated: every write_rules call, of either handler, succeeds and
\* leaves the rules file in place with the content given, the directories
\* that hold it created when they were missing.
C14_WriteRulesCreatesParents ==
    last.op = "write_rules" =>
        /\ last.out.raised = ""
        /\ FileExists(FsState, RulesFile(adapter))
        /\ files[RulesFile(adapter)] = last.arg

\* The four rule files the cursor handler declares.
CursorDeclaredPaths ==
    { Path(".cursor/rules/") \o n :
        n \in {"development-workflow.mdc", "code-standards.mdc",
               "project-structure.mdc", "devops-practices.mdc"} }

C15_FourPaths ==
    (last.op = "get_output_paths" /\ adapter.cls = CursorRulesManager) =>
        /\ last.out.raised = ""
        /\ Len(last.out.value) = 4
        /\ Range(last.out.value) = CursorDeclaredPaths
        /\ Cardinality(Range(last.out.value)) = 4

\* C15: the cursor handler's get_output_paths returns exactly 4 distinct
\* paths, all in <target>/.cursor/rules, whatever the file system holds; and
\* write_rules(c) on a target without a .cursor directory leaves
\* <target>/.cursor/rules/coding-agent-rules.mdc holding c.
C15_CursorPaths ==
    /\ []C15_FourPaths
    /\ [][(/\ last'.op = "write_rules"
           /\ adapter'.cls = CursorRulesManager
           /\ ~DirExists(FsState, CursorDir)) =>
             /\ last'.out.raised = ""
             /\ Path(".cursor/rules/coding-agent-rules.mdc") \in DOMAIN files'
             /\ files'[Path(".cursor/rules/coding-agent-rules.mdc")] = last'.arg
             /\ {Path(".cursor"), Path(".cursor/rules")} \subseteq dirs']_vars

\* The four paths reported after a write that created .cursor/rules.
C15_Witness ==
    /\ last.op = "get_output_paths"
    /\ adapter.cls = CursorRulesManager
    /\ Len(last.out.value) = 4
    /\ Path(".cursor/rules/coding-agent-rules.mdc") \in DOMAIN files
    /\ files[Path(".cursor/rules/coding-agent-rules.mdc")] = <<"# rules A", "# rules B">>


\* C16: in every reachable state the registry holds exactly claude-code and
\* cursor, each bound to its own class: no create_adapter call, failed or
\* not, no get_supported_agents call and no change to a list that call
\* returned adds, removes or rebinds an entry.
C16_RegistryFixed ==
    /\ DOMAIN adapters = {"claude-code", "cursor"}
    /\ adapters["claude-code"] = ClaudeRulesManager
    /\ adapters["cursor"] = CursorRulesManager

\* The caller emptied the returned list of the registered names and added
\* another, after a failed create_adapter had been seen.
C16_Witness ==
    /\ last.op = "mutate_supported_list"
    /\ last.out.value = {"unknown-agent"}
    /\ adapter # None


\* The text has a leading metadata block that does not parse.
Malformed(text) ==
    /\ text # <<>>
    /\ HasLeadingBlock(text)
    /\ YamlSafeLoad(BlockOf(text)).raised # ""

\* The files install_coding_workflows writes for the workflow names.
WorkflowCommandFiles ==
    { d \o "/" \o n \o ".md" : d \in {ClaudeCommandsDir, CursorCommandsDir}, n \in EngineWorkflowNames }

\* C17 as stated: a workflow template whose rendered leading metadata block
\* does not parse is rejected by render_coding_workflow with the
\* malformed-metadata error, and install_coding_workflows never writes such
\* a document to a commands directory.
C17_WorkflowMetadataValidated ==
    /\ (/\ last.op = "render_coding_workflow"
        /\ last.arg.agent_type \in {"claude-code", "cursor"}
        /\ WorkflowTemplate(last.arg.workflow_name) \in templates
        /\ Malformed(last.arg.rendered)) => last.out = ValueError(InvalidFrontmatter)
    /\ \A p \in WorkflowCommandFiles \cap DOMAIN files : ~Malformed(files[p])


\* The workflow names of a comma-separated option, blanks dropped.
NamesOf(pieces) == {Strip(pieces[i]) : i \in 1..Len(pieces)} \ {""}

ConfigurableWorkflows == {"spec-driven", "tdd", "code-review", "research", "triage"}

\* C18: configure-workflows given a list with a name outside the five
\* available ones exits non-zero and installs nothing, the valid names of
\* the list included; when the agent type and the repository path are
\* valid, it reports exactly the available names.
C18_AllNamesValidatedFirst ==
    [][(/\ CommandStep
        /\ last'.op = "configure_workflows"
        /\ ~(NamesOf(last'.arg.workflows) \subseteq ConfigurableWorkflows)) =>
          /\ last'.out.exit # 0
          /\ FsUnchanged
          /\ (last'.arg.agent_type \in {"claude-code", "cursor"} /\ targetExists) =>
                /\ "available" \in DOMAIN last'.out
                /\ last'.out.available = ConfigurableWorkflows]_vars

\* A real run on an existing repository, a valid name before the invalid one.
C18_Witness ==
    /\ last.op = "configure_workflows"
    /\ last.arg.workflows = <<"tdd", "my-flow">>
    /\ last.arg.agent_type = "claude-code"
    /\ ~last.arg.dry_run
    /\ targetExists
    /\ last.out.exit = 1
    /\ Path(".claude/commands/tdd.md") \notin DOMAIN files


\* The file configure-mcp writes for an agent type.
McpTarget(agent_type) ==
    IF agent_type = "claude-code" THEN Path(".claude/settings.json") ELSE Path(".cursor/mcp.json")

\* A real configure-mcp run with a JSON object, for a supported agent, on
\* an existing repository whose target file is missing or holds a mapping.
McpApplies ==
    /\ CommandStep
    /\ last'.op = "configure_mcp"
    /\ ~last'.arg.dry_run
    /\ last'.arg.agent_type \in {"claude-code", "cursor"}
    /\ targetExists
    /\ IsDocument(last'.arg.config)
    /\ McpTarget(last'.arg.agent_type) \in DOMAIN files =>
          IsDocument(files[McpTarget(last'.arg.agent_type)])

\* C19 as stated: for both agent types the run merges the supplied object
\* into the target file: keys the file had and the config lacks keep their
\* values, every supplied key has the supplied value.
C19_McpMergesForBoth ==
    [][McpApplies =>
          /\ last'.out.exit = 0
          /\ McpTarget(last'.arg.agent_type) \in DOMAIN files'
          /\ IsDocument(files'[McpTarget(last'.arg.agent_type)])
          /\ DocumentOf(files', McpTarget(last'.arg.agent_type)) =
                Override(DocumentOf(files, McpTarget(last'.arg.agent_type)),
                         AsMap(JsonLoad(last'.arg.config).val.m))]_vars

\* C19, amended: for claude-code the run merges the supplied object into
\* .claude/settings.json (old keys the config lacks keep their values,
\* supplied keys take the supplied values); for cursor it writes the
\* supplied object as the whole of .cursor/mcp.json, so keys the file had
\* and the config lacks are gone.
C19_McpMergesForClaudeOnly ==
    [][McpApplies =>
          /\ last'.out.exit = 0
          /\ McpTarget(last'.arg.agent_type) \in DOMAIN files'
          /\ IsDocument(files'[McpTarget(last'.arg.agent_type)])
          /\ DocumentOf(files', McpTarget(last'.arg.agent_type)) =
                (IF last'.arg.agent_type = "claude-code"
                 THEN Override(DocumentOf(files, Path(".claude/settings.json")),
                               AsMap(JsonLoad(last'.arg.config).val.m))
                 ELSE AsMap(JsonLoad(last'.arg.config).val.m))]_vars

\* A claude-code run that added x to a settings file holding y, on a
\* repository where an earlier cursor run had written mcp.json.
C19_Witness ==
    /\ last.op = "configure_mcp"
    /\ last.arg.agent_type = "claude-code"
    /\ ~last.arg.dry_run
    /\ last.out.exit = 0
    /\ Path(".cursor/mcp.json") \in DOMAIN files
    /\ Path(".claude/settings.json") \in DOMAIN files
    /\ files[Path(".claude/settings.json")] =
          JsonDump(Obj(<<Member("y", Num("2")), Member("x", Num("1"))>>))


\* C20 as stated: configure-supervisor with only valid guard names, an
\* existing repository and no --dry-run exits zero and leaves
\* <repo>/.claude/settings.json in place, updated with the guards.
C20_SupervisorInstallsGuards ==
    [][(/\ CommandStep
        /\ last'.op = "configure_supervisor"
        /\ ~last'.arg.dry_run
        /\ targetExists
        /\ NamesOf(last'.arg.guards) \subseteq {"file-guard", "tdd-guard", "self-review"}) =>
          /\ last'.out.exit = 0
          /\ Path(".claude/settings.json") \in DOMAIN files']_vars


\* The file configure-defaults writes the agent's configuration to.
AgentConfigurationFile(agent_type) ==
    IF agent_type = "claude-code" THEN Path(".claude-code-config.json") ELSE Path(".cursorrules")

\* C21 as stated: configure-defaults with a supported agent type, an
\* existing repository, auto-detect enabled and no --template-type (and
\* neither --list nor --dry-run) selects a template and applies it: the
\* agent's configuration file is written and the exit status is zero.
C21_AutoDetectAppliesTemplate ==
    [][(/\ CommandStep
        /\ last'.op = "configure_defaults"
        /\ last'.arg.agent_type \in {"claude-code", "cursor"}
        /\ last'.arg.template_type = "None"
        /\ last'.arg.auto_detect
        /\ ~last'.arg.list /\ ~last'.arg.dry_run
        /\ targetExists) =>
          /\ last'.out.exit = 0
          /\ AgentConfigurationFile(last'.arg.agent_type) \in DOMAIN files']_vars


\* The step is a generate_rules or generate_subagent_rules call whose
\* rendering or validation cannot succeed: unsupported agent type, missing
\* configuration or template, or a metadata block that does not parse.
GenerateMustFail ==
    \/ /\ last'.op = "generate_rules"
       /\ \/ last'.arg.agent_type \notin {"claude-code", "cursor"}
          \/ AgentConfigFile(last'.arg.agent_type) \notin templates
          \/ SubagentTemplate("configure_rules") \notin templates
          \/ Malformed(last'.arg.rendered)
    \/ /\ last'.op = "generate_subagent_rules"
       /\ \/ last'.arg.agent_type \notin {"claude-code", "cursor"}
          \/ SubagentTemplate(last'.arg.subagent_name) \notin templates
          \/ Malformed(last'.arg.rendered)

\* The failures of rendering and of validation.
RenderFailures == {"ValueError", "TemplateNotFound"}

\* C22: generate_rules and generate_subagent_rules finish substitution and
\* validation before their first write: a call whose rendering or
\* validation fails (unsupported agent type, missing template, malformed
\* metadata block) raises and leaves every file and directory under the
\* target, and the target itself, as it was.
C22_FailedGenerationWritesNothing ==
    [][/\ GenerateMustFail => last'.out.raised \in RenderFailures
       /\ (/\ last'.op \in {"generate_rules", "generate_subagent_rules"}
           /\ last'.out.raised \in RenderFailures) =>
             /\ targetExists' = targetExists
             /\ dirs' = dirs
             /\ files' = files]_vars

\* A generate_subagent_rules call rejected for its metadata block, for a
\* tool whose commands directory no earlier call had made.
C22_Witness ==
    /\ last.op = "generate_subagent_rules"
    /\ last.out.raised = "ValueError"
    /\ last.out.msg = InvalidFrontmatter
    /\ last.arg.agent_type = "cursor"
    /\ CursorCommandsDir \notin dirs
    /\ ClaudeCommandsDir \o "/configure_rules.md" \in DOMAIN files


\* The issue doctor reports for a missing rules file or rules directory.
RulesIssue(agent_type) ==
    IF agent_type = "claude-code" THEN "claude_rules_missing" ELSE "cursor_rules_missing"

\* C23 as stated: after doctor reported a missing CLAUDE.md (claude-code) or
\* a missing .cursor/rules directory (cursor), running the fix it suggests
\* (configure-defaults for that agent type with template development-team,
\* not dry-run) makes a following doctor run on the same repository no
\* longer report that issue.
C23_SuggestedFixClearsIssue ==
    [][(/\ last.op = "doctor"
        /\ last.arg.repair
        /\ \E t \in {"claude-code", "cursor"} :
              /\ RulesIssue(t) \in Range(last.out.issues_found)
              /\ last'.op = "configure_defaults"
              /\ last'.arg = [agent_type |-> t, template_type |-> "development-team",
                              auto_detect |-> TRUE, dry_run |-> FALSE, list |-> FALSE]) =>
          LET again == Doctor(FsState', adapters, [repair |-> FALSE,
                                                   agent_type |-> last'.arg.agent_type])
          IN /\ again.out.exit = 0
             /\ RulesIssue(last'.arg.agent_type) \notin Range(again.out.issues_found)]_vars


\* The text the last render call rendered.
RenderedText == last.arg.rendered

\* C24: in render_configure_rules and render_subagent_template, a rendered
\* text whose first line is exactly the marker while no later line is has
\* its metadata check skipped: the call succeeds and returns the text
\* unchanged; and when the closing marker is the very next line the empty
\* block is accepted, whatever follows it.
C24_UnclosedOrEmptyBlockAccepted ==
    WasRendered =>
        /\ (/\ RenderedText[1] = "---"
            /\ \A i \in 2..Len(RenderedText) : RenderedText[i] # "---") =>
              last.out = OkValue(RenderedText)
        /\ (/\ Len(RenderedText) >= 2
            /\ RenderedText[1] = "---"
            /\ RenderedText[2] = "---") =>
              last.out = OkValue(RenderedText)

\* A block that is opened, never closed, and holds a line that does not parse.
C24_Witness ==
    /\ WasRendered
    /\ last.op = "render_configure_rules"
    /\ RenderedText = <<"---", "tools: [Read", "name: rules">>
    /\ last.out.raised = ""


\* The file install_coding_workflows writes for a name.
EngineWorkflowFile(agent_type, name) == EngineCommandsDir(agent_type) \o "/" \o name \o ".md"

\* The positions of the names in the list that have no workflow template.
Unrenderable(names) == {i \in 1..Len(names) : WorkflowTemplate(names[i]) \notin templates}

\* What C25 says of a step that is an install_coding_workflows call.
InstallStopsAtFirstFailure ==
    LET names == last'.arg.workflow_names
        t == last'.arg.agent_type
    IN /\ t \notin {"claude-code", "cursor"} =>
            /\ last'.out.raised = "ValueError"
            /\ last'.out.msg = UnsupportedAgent
            /\ targetExists' = targetExists /\ dirs' = dirs /\ files' = files
       /\ (t \in {"claude-code", "cursor"} /\ Unrenderable(names) # {}) =>
            LET k == CHOOSE i \in Unrenderable(names) : \A j \in Unrenderable(names) : i <= j
                first == {EngineWorkflowFile(t, names[i]) : i \in 1..(k - 1)}
            IN /\ last'.out.raised = "ValueError"
               /\ targetExists' /\ EngineCommandsDir(t) \in dirs'
               /\ \A i \in 1..(k - 1) :
                     /\ EngineWorkflowFile(t, names[i]) \in DOMAIN files'
                     /\ files'[EngineWorkflowFile(t, names[i])] =
                           RenderOf(last'.arg.render, WorkflowTemplate(names[i]))
               /\ Written \subseteq first
               /\ \A i \in k..Len(names) :
                     EngineWorkflowFile(t, names[i]) \notin first =>
                        EngineWorkflowFile(t, names[i]) \notin Written
               /\ \A p \in DOMAIN files : p \in DOMAIN files'

\* C25: install_coding_workflows processes the names in list order and does
\* not roll back: when rendering the k-th name fails the call raises
\* ValueError, the commands directory has been created, the files of the
\* first k-1 names have been written and remain, and no file is written for
\* the k-th or a later name; with an unsupported agent type it raises
\* before it creates anything.
C25_NoRollback ==
    [][last'.op = "install_coding_workflows" => InstallStopsAtFirstFailure]_vars

\* The second of two names failed after the first one's file was written,
\* on a target that did not exist before.
C25_Witness ==
    /\ last.op = "install_coding_workflows"
    /\ last.arg.workflow_names = <<"tdd", "my-flow">>
    /\ last.arg.agent_type = "cursor"
    /\ last.out.raised = "ValueError"
    /\ DOMAIN files = {CursorCommandsDir \o "/tdd.md"}


\* The list ai-commands.json holds; the empty list when the file is
\* missing or holds no list.
CommandList(fls) ==
    IF AiCommandsFile \notin DOMAIN fls THEN <<>>
    ELSE LET loaded == JsonLoad(fls[AiCommandsFile]) IN
         IF loaded.ok /\ loaded.val.t = "arr" THEN loaded.val.e ELSE <<>>

\* How many entries of a list are commands of the given name.
NameCount(list, name) ==
    Cardinality({i \in 1..Len(list) :
                    list[i].t = "obj" /\ DictGet(list[i].m, "name") = Str(name)})

DefaultNameSet == {DefaultCommandNames[i] : i \in 1..Len(DefaultCommandNames)}

\* What C26 says of a step that is an install_ai_commands call.
AiCommandsMerged ==
    LET before == CommandList(files)
        after == CommandList(files')
        added == SubSeq(after, Len(before) + 1, Len(after))
    IN IF last'.out.raised # ""
       THEN files' = files
       ELSE /\ last'.out.value = AiCommandsFile
            /\ files'[AiCommandsFile] = JsonDump(Arr(after))
            /\ Len(after) >= Len(before)
            /\ SubSeq(after, 1, Len(before)) = before
            /\ added = SelectSeq(DefaultCommands,
                                 LAMBDA cmd : NameCount(before, cmd.m[1].v.v) = 0)
            /\ \A n \in DefaultNameSet :
                  NameCount(after, n) = (IF NameCount(before, n) = 0 THEN 1
                                         ELSE NameCount(before, n))
            /\ InstallAiCommands([exists |-> targetExists', dirs |-> dirs', files |-> files'])
                  = Result([exists |-> targetExists', dirs |-> dirs', files |-> files'],
                           OkValue(AiCommandsFile))
            /\ Written \subseteq {AiCommandsFile}

SourceLineCount(fls, rc_file) ==
    IF rc_file \notin DOMAIN fls THEN 0
    ELSE Cardinality({i \in 1..Len(fls[rc_file]) : fls[rc_file][i] = SourceLine})

\* The shell configuration holds one of the two texts the setup looks for.
AlreadyMentioned(fls, rc_file) ==
    /\ rc_file \in DOMAIN fls
    /\ \E i \in 1..Len(fls[rc_file]) : MentionsProtection(fls[rc_file][i])

\* The file is the same before and after the step, or missing in both.
SameFile(p) ==
    /\ (p \in DOMAIN files) = (p \in DOMAIN files')
    /\ p \in DOMAIN files => files'[p] = files[p]

\* The step is a setup_bash_protection call with a detected shell and the
\* protection script in place.
ProtectionStep ==
    /\ last'.op = "setup_bash_protection"
    /\ ShellType(last'.arg.shell) \in {"zsh", "bash"}
    /\ ProtectionScript \in templates

\* C27 as stated: with a detected shell and the protection script present,
\* after a setup_bash_protection(auto_install=True) call the shell
\* configuration holds the source line exactly once, however many calls
\* came before; calls with auto_install=False never modify it.
C27_SourceLineExactlyOnce ==
    [][ProtectionStep =>
          LET rc_file == RcFile(ShellType(last'.arg.shell)) IN
          IF last'.arg.auto_install
          THEN SourceLineCount(files', rc_file) = 1
          ELSE SameFile(rc_file)]_vars

\* C27, amended: with a detected shell and the protection script present,
\* a call with auto_install=True on a shell configuration that mentions
\* neither "bash_protection.sh" nor "Cursor AI Safety Shell Protection"
\* (or does not exist) appends the source line, once; on a configuration
\* that mentions either text no call changes anything, so a configuration
\* that held such a text without the source line never gets the line and
\* one that has the line keeps it exactly once; calls with
\* auto_install=False never modify the configuration.
C27_SourceLineAtMostOnce ==
    [][ProtectionStep =>
          LET rc_file == RcFile(ShellType(last'.arg.shell)) IN
          /\ ~last'.arg.auto_install => SameFile(rc_file)
          /\ AlreadyMentioned(files, rc_file) => SameFile(rc_file)
          /\ (last'.arg.auto_install /\ ~AlreadyMentioned(files, rc_file)) =>
                /\ rc_file \in DOMAIN files'
                /\ files'[rc_file] =
                      (IF rc_file \in DOMAIN files THEN files[rc_file] ELSE <<>>) \o SourceLines
                /\ SourceLineCount(files', rc_file) = 1
          /\ SourceLineCount(files, rc_file) = 1 => SourceLineCount(files', rc_file) = 1
          /\ \A p \in {"~/.zshrc", "~/.bashrc"} \ {rc_file} : SameFile(p)]_vars

\* A call with auto_install=False after one with auto_install=True had
\* appended the line to a configuration that held another line.
C27_Witness ==
    /\ last.op = "setup_bash_protection"
    /\ last.arg = [shell |-> "/bin/zsh", auto_install |-> FALSE]
    /\ last.out.value.protection_installed
    /\ "~/.zshrc" \in DOMAIN files
    /\ files["~/.zshrc"] = <<"export EDITOR=vi">> \o SourceLines


\* The backup files apply_settings_template may have written.
BackupFiles == {BackupFile(ClockReadings[i]) : i \in DOMAIN ClockReadings}

\* C28 as stated: a call of apply_settings_template with dry_run=False made
\* while .claude/settings.json exists leaves a backup file that holds what
\* settings.json held just before the call, and no call overwrites a backup
\* an earlier call left, so that every such call keeps its backup; a call
\* with dry_run=True creates no backup and changes nothing.
C28_EveryCallKeepsItsBackup ==
    [][last'.op = "apply_settings_template" =>
          /\ last'.arg.dry_run =>
                targetExists' = targetExists /\ dirs' = dirs /\ files' = files
          /\ (~last'.arg.dry_run /\ FileExists(FsState, ClaudeDir \o "/settings.json")) =>
                \E b \in BackupFiles :
                    /\ b \in DOMAIN files'
                    /\ files'[b] = files[ClaudeDir \o "/settings.json"]
          /\ \A b \in BackupFiles :
                b \in DOMAIN files => (b \in DOMAIN files' /\ files'[b] = files[b])]_vars


\* C29: configure_settings (both handlers) reads and parses the existing
\* settings document before it opens it for writing: when the document
\* cannot be parsed the call fails with the decoder's error, and the
\* document and every other file are left exactly as they were (the
\* document is neither truncated nor reset to an empty mapping).
C29_UnparsableSettingsLeftAlone ==
    [][(/\ last'.op = "configure_settings"
        /\ SettingsFile(adapter') \in DOMAIN files
        /\ ~JsonLoad(files[SettingsFile(adapter')]).ok) =>
          /\ last'.out.raised = "JSONDecodeError"
          /\ files' = files
          /\ dirs' = dirs
          /\ targetExists' = targetExists]_vars

\* The cursor handler's call failed on a settings text that was cut short,
\* and the text is still there.
C29_Witness ==
    /\ last.op = "configure_settings"
    /\ last.out.raised = "JSONDecodeError"
    /\ last.arg # <<>>
    /\ adapter.cls = CursorRulesManager
    /\ files[SettingsFile(adapter)] = <<"{", Quote("x")>>


\* An init run that got as far as choosing what to install.
InitChose ==
    /\ last.op = "init"
    /\ last.arg.agent_type \in {"claude-code", "cursor"}
    /\ last.out.exit = 0

\* The choice when neither --subagent nor --workflow counts as given.
FullSelection ==
    /\ last.out.subagents_to_install =
          (IF last.arg.workflows_only THEN <<>> ELSE InitAvailableSubagents)
    /\ last.out.workflows_to_install =
          (IF last.arg.subagents_only THEN <<>> ELSE InitAvailableWorkflows)

\* The choice of exactly the items the two options name; `named` tells
\* whether an option's value names an item.
NamedSelection(named(_)) ==
    /\ last.out.subagents_to_install =
          (IF named(last.arg.subagent) THEN <<last.arg.subagent>> ELSE <<>>)
    /\ last.out.workflows_to_install =
          (IF named(last.arg.workflow) THEN <<last.arg.workflow>> ELSE <<>>)

\* C30 as stated: when neither --subagent nor --workflow is given, init
\* selects the full subagent set iff --workflows-only is not set and the
\* full workflow set iff --subagents-only is not set; when --subagent
\* and/or --workflow is given, with whatever value, exactly the given
\* item(s) are selected, nothing of the other kind unless it is given too,
\* and the *-only flags have no effect.
C30_GivenOptionsSelectExactly ==
    InitChose =>
        IF last.arg.subagent = "None" /\ last.arg.workflow = "None"
        THEN FullSelection
        ELSE NamedSelection(LAMBDA s : s # "None")

\* C30, amended: an option given with an empty value counts as not given.
\* When neither --subagent nor --workflow has a non-empty value, the full
\* subagent set is selected iff --workflows-only is not set and the full
\* workflow set iff --subagents-only is not set (both flags select
\* nothing); when at least one of them has a non-empty value, exactly the
\* named item(s) are selected, nothing of the other kind unless it is named
\* too, and the *-only flags have no effect.
C30_NamedOptionsSelectExactly ==
    InitChose =>
        IF ~Truthy(last.arg.subagent) /\ ~Truthy(last.arg.workflow)
        THEN FullSelection
        ELSE NamedSelection(Truthy)

\* A named subagent with --workflows-only set: the flag had no effect.
C30_Witness ==
    /\ InitChose
    /\ last.arg.subagent = "configure_rules"
    /\ last.arg.workflow = "None"
    /\ last.arg.workflows_only
    /\ last.out.subagents_to_install = <<"configure_rules">>
    /\ last.out.workflows_to_install = <<>>
    /\ ~last.arg.dry_run

====
